---------------------------- MODULE Spec2Model ----------------------------
(***************************************************************************)
(* Model of the Realflow AI agent backend (src/main.py): the Vapi webhook  *)
(* dispatcher, the four tool handlers, the argument normalizer and the     *)
(* lead scorer, over an in-memory image of the Supabase tables and of the  *)
(* Google sheet.                                                           *)
(*                                                                         *)
(* Python values are tagged records. lower(), strip(), replace(),          *)
(* substring tests and JSON decoding are computed character by character   *)
(* and not assumed.                                                        *)
(***************************************************************************)
EXTENDS Integers, Sequences, FiniteSets, TLC

(***************************************************************************)
(* Python / JSON values                                                    *)
(***************************************************************************)
None == [t |-> "none"]
Str(s) == [t |-> "str", v |-> s]
Bool(b) == [t |-> "bool", v |-> b]
Num(n) == [t |-> "int", v |-> n]
List(l) == [t |-> "list", v |-> l]
Dict(f) == [t |-> "dict", v |-> f]

EmptyDict == Dict(<<>>)

\* Python truthiness: bool(v)
Truthy(v) ==
    CASE v.t = "none" -> FALSE
      [] v.t = "bool" -> v.v
      [] v.t = "int"  -> v.v # 0
      [] v.t = "str"  -> Len(v.v) > 0
      [] v.t = "list" -> Len(v.v) > 0
      [] v.t = "dict" -> DOMAIN v.v # {}

\* a or b
Or(a, b) == IF Truthy(a) THEN a ELSE b

IsDict(v) == v.t = "dict"
IsStr(v) == v.t = "str"

\* k in d
HasKey(d, k) == k \in DOMAIN d.v

\* d.get(k, default) and d.get(k)
GetOr(d, k, default) == IF HasKey(d, k) THEN d.v[k] ELSE default
Get(d, k) == GetOr(d, k, None)

\* d[k] = v
SetKey(d, k, val) == Dict([x \in DOMAIN d.v \cup {k} |-> IF x = k THEN val ELSE d.v[x]])

(***************************************************************************)
(* Python string operations. A string is a TLA+ string; At(s, i) is its    *)
(* i-th character, a string of length one.                                 *)
(***************************************************************************)
At(s, i) == SubSeq(s, i, i)

UpperChars == <<"A","B","C","D","E","F","G","H","I","J","K","L","M",
                "N","O","P","Q","R","S","T","U","V","W","X","Y","Z">>
LowerChars == <<"a","b","c","d","e","f","g","h","i","j","k","l","m",
                "n","o","p","q","r","s","t","u","v","w","x","y","z">>

LowerChar(c) ==
    IF \E i \in DOMAIN UpperChars : UpperChars[i] = c
    THEN LowerChars[CHOOSE i \in DOMAIN UpperChars : UpperChars[i] = c]
    ELSE c

RECURSIVE Lower(_)
\* s.lower()
Lower(s) == IF Len(s) = 0 THEN "" ELSE LowerChar(Head(s)) \o Lower(Tail(s))

Whitespace == {" ", "\t", "\n", "\r"}

RECURSIVE LStrip(_)
LStrip(s) == IF Len(s) > 0 /\ Head(s) \in Whitespace THEN LStrip(Tail(s)) ELSE s

RECURSIVE RStrip(_)
RStrip(s) ==
    IF Len(s) > 0 /\ At(s, Len(s)) \in Whitespace THEN RStrip(SubSeq(s, 1, Len(s) - 1)) ELSE s

\* s.strip()
Strip(s) == RStrip(LStrip(s))

\* sub in s
Contains(sub, s) ==
    \E i \in 1..(Len(s) - Len(sub) + 1) : SubSeq(s, i, i + Len(sub) - 1) = sub

RECURSIVE ReplaceChar(_, _, _)
\* s.replace(a, b) for single characters a, b
ReplaceChar(s, a, b) ==
    IF Len(s) = 0 THEN ""
    ELSE (IF Head(s) = a THEN b ELSE Head(s)) \o ReplaceChar(Tail(s), a, b)

DigitChars == <<"0","1","2","3","4","5","6","7","8","9">>

RECURSIVE IntToStr(_)
\* str(n) for n >= 0
IntToStr(n) == IF n < 10 THEN DigitChars[n + 1] ELSE IntToStr(n \div 10) \o DigitChars[(n % 10) + 1]

RECURSIVE Join(_, _)
\* sep.join(parts)
Join(sep, parts) ==
    IF Len(parts) = 0 THEN ""
    ELSE IF Len(parts) = 1 THEN parts[1]
    ELSE parts[1] \o sep \o Join(sep, Tail(parts))

(***************************************************************************)
(* json.loads, for the JSON subset the model's payloads use: objects,      *)
(* arrays, double-quoted strings without escapes, true / false / null and  *)
(* non-negative integers.                                                  *)
(***************************************************************************)
ParseFail == [ok |-> FALSE]
ParseOk(val, n) == [ok |-> TRUE, v |-> val, next |-> n]

RECURSIVE SkipWs(_, _)
SkipWs(s, i) == IF i <= Len(s) /\ At(s, i) \in Whitespace THEN SkipWs(s, i + 1) ELSE i

HasPrefixAt(s, i, lit) == i + Len(lit) - 1 <= Len(s) /\ SubSeq(s, i, i + Len(lit) - 1) = lit

IsDigit(c) == \E d \in DOMAIN DigitChars : DigitChars[d] = c
DigitVal(c) == (CHOOSE d \in DOMAIN DigitChars : DigitChars[d] = c) - 1

RECURSIVE ParseDigits(_, _, _)
ParseDigits(s, i, acc) ==
    IF i <= Len(s) /\ IsDigit(At(s, i)) THEN ParseDigits(s, i + 1, acc * 10 + DigitVal(At(s, i)))
    ELSE ParseOk(Num(acc), i)

ParseString(s, i) ==
    IF i <= Len(s) /\ At(s, i) = "\""
    THEN LET closing == {j \in (i + 1)..Len(s) : At(s, j) = "\""}
         IN  IF closing = {} THEN ParseFail
             ELSE LET j == CHOOSE k \in closing : \A m \in closing : k <= m
                  IN  IF \E m \in (i + 1)..(j - 1) : At(s, m) = "\\" THEN ParseFail
                      ELSE ParseOk(Str(SubSeq(s, i + 1, j - 1)), j + 1)
    ELSE ParseFail

RECURSIVE ParseValue(_, _), ParseElems(_, _, _), ParseMembers(_, _, _)

ParseValue(s, i0) ==
    LET i == SkipWs(s, i0) IN
    IF i > Len(s) THEN ParseFail
    ELSE IF At(s, i) = "\"" THEN ParseString(s, i)
    ELSE IF At(s, i) = "{" THEN
        LET j == SkipWs(s, i + 1) IN
        IF j <= Len(s) /\ At(s, j) = "}" THEN ParseOk(EmptyDict, j + 1)
        ELSE ParseMembers(s, j, EmptyDict)
    ELSE IF At(s, i) = "[" THEN
        LET j == SkipWs(s, i + 1) IN
        IF j <= Len(s) /\ At(s, j) = "]" THEN ParseOk(List(<<>>), j + 1)
        ELSE ParseElems(s, j, <<>>)
    ELSE IF HasPrefixAt(s, i, "true") THEN ParseOk(Bool(TRUE), i + 4)
    ELSE IF HasPrefixAt(s, i, "false") THEN ParseOk(Bool(FALSE), i + 5)
    ELSE IF HasPrefixAt(s, i, "null") THEN ParseOk(None, i + 4)
    ELSE IF IsDigit(At(s, i)) THEN ParseDigits(s, i, 0)
    ELSE ParseFail

\* elements of an array after "[", acc the elements read so far
ParseElems(s, i, acc) ==
    LET r == ParseValue(s, i) IN
    IF ~r.ok THEN ParseFail
    ELSE LET j == SkipWs(s, r.next) IN
         IF j > Len(s) THEN ParseFail
         ELSE IF At(s, j) = "]" THEN ParseOk(List(Append(acc, r.v)), j + 1)
         ELSE IF At(s, j) = "," THEN ParseElems(s, j + 1, Append(acc, r.v))
         ELSE ParseFail

\* members of an object after "{", acc the object read so far (a repeated key keeps the last value)
ParseMembers(s, i0, acc) ==
    LET i == SkipWs(s, i0)
        k == ParseString(s, i)
    IN
    IF ~k.ok THEN ParseFail
    ELSE LET c == SkipWs(s, k.next) IN
         IF c > Len(s) \/ At(s, c) # ":" THEN ParseFail
         ELSE LET r == ParseValue(s, c + 1) IN
              IF ~r.ok THEN ParseFail
              ELSE LET j == SkipWs(s, r.next) IN
                   IF j > Len(s) THEN ParseFail
                   ELSE IF At(s, j) = "}" THEN ParseOk(SetKey(acc, k.v.v, r.v), j + 1)
                   ELSE IF At(s, j) = "," THEN ParseMembers(s, j + 1, SetKey(acc, k.v.v, r.v))
                   ELSE ParseFail

\* json.loads(s): [ok |-> TRUE, v |-> value], or [ok |-> FALSE] where it raises
json_loads(s) ==
    LET r == ParseValue(s, 1) IN
    IF r.ok /\ SkipWs(s, r.next) = Len(s) + 1 THEN [ok |-> TRUE, v |-> r.v] ELSE ParseFail

(***************************************************************************)
(* Lead scorer                                                             *)
(***************************************************************************)
\* str(v) for the scalar values
PyStr(val) ==
    CASE val.t = "str"  -> val.v
      [] val.t = "int"  -> IntToStr(val.v)
      [] val.t = "bool" -> IF val.v THEN "True" ELSE "False"
      [] val.t = "none" -> "None"

\* a list or a dict cannot be a dictionary key: table.get(v) raises TypeError
Hashable(val) == val.t \notin {"list", "dict"}

\* table.get(val, default) for a table of <<string, points>> pairs
TableGet(table, val, default) ==
    IF \E i \in DOMAIN table : val = Str(table[i][1])
    THEN table[CHOOSE i \in DOMAIN table : val = Str(table[i][1])][2]
    ELSE default

urgency_scores ==
    << <<"immediate", 30>>, <<"1-3 months", 25>>, <<"3-6 months", 15>>,
       <<"6+ months", 5>>, <<"just browsing", 0>> >>

\* (variant of role_scores: a buyer is worth 20 points)
role_scores_Uncapped ==
    << <<"buyer", 20>>, <<"investor", 15>>, <<"developer", 12>>, <<"seller", 10>>,
       <<"broker", 8>>, <<"tenant", 5>>, <<"landlord", 5>> >>

role_scores ==
    << <<"buyer", 15>>, <<"investor", 15>>, <<"developer", 12>>, <<"seller", 10>>,
       <<"broker", 8>>, <<"tenant", 5>>, <<"landlord", 5>> >>

\* (variant of sentiment_scores: a frustrated caller costs points)
sentiment_scores_Penalty ==
    << <<"very_positive", 10>>, <<"positive", 8>>, <<"neutral", 5>>,
       <<"negative", 2>>, <<"frustrated", 0 - 10>> >>

sentiment_scores ==
    << <<"very_positive", 10>>, <<"positive", 8>>, <<"neutral", 5>>,
       <<"negative", 2>>, <<"frustrated", 0>> >>

premium_assets == {"multifamily", "industrial", "mixed-use", "office"}

TopTierIndicators == {"10m", "million", "20m", "50m"}
MidTierIndicators == {"5m", "1m", "2m"}
LowTierIndicators == {"500k", "750k"}

\* any(indicator in text for indicator in indicators)
AnyIn(indicators, text) == \E ind \in indicators : Contains(ind, text)

DealSizeScore(deal_size) ==
    IF ~Truthy(deal_size) THEN 0
    ELSE LET deal_lower == Lower(PyStr(deal_size)) IN
         IF AnyIn(TopTierIndicators, deal_lower) THEN 25
         ELSE IF AnyIn(MidTierIndicators, deal_lower) THEN 20
         ELSE IF AnyIn(LowTierIndicators, deal_lower) THEN 15
         ELSE 10

AssetScore(asset_type) ==
    IF asset_type.t = "str" /\ asset_type.v \in premium_assets THEN 10
    ELSE IF Truthy(asset_type) THEN 5
    ELSE 0

Min(a, b) == IF a <= b THEN a ELSE b
Max(a, b) == IF a >= b THEN a ELSE b

\* calculate_lead_score raises TypeError on an unhashable urgency, role or sentiment
ScoreRaises(data) ==
    \/ ~Hashable(GetOr(data, "urgency", Str("")))
    \/ ~Hashable(GetOr(data, "caller_role", Str("")))
    \/ ~Hashable(GetOr(data, "sentiment", Str("neutral")))

calculate_lead_score(data) ==
    LET urgency    == GetOr(data, "urgency", Str(""))
        deal_size  == GetOr(data, "deal_size", Str(""))
        role       == GetOr(data, "caller_role", Str(""))
        asset_type == GetOr(data, "asset_type", Str(""))
        sentiment  == GetOr(data, "sentiment", Str("neutral"))
        score == TableGet(urgency_scores, urgency, 0)
                 + DealSizeScore(deal_size)
                 + TableGet(role_scores, role, 0)
                 + AssetScore(asset_type)
                 + TableGet(sentiment_scores, sentiment, 5)
                 + (IF Truthy(Get(data, "caller_email")) THEN 10 ELSE 0)
    IN  Min(score, 100)

\* (variant of is_hot_lead: a lone reason is not reported)
is_hot_lead_LoneReasonDropped(score, urgency, deal_size) ==
    LET r1 == IF score >= 75
              THEN << "High lead score (" \o IntToStr(score) \o "/100)" >> ELSE <<>>
        r2 == IF urgency = Str("immediate") THEN << "Immediate timeline" >> ELSE <<>>
        r3 == IF Truthy(deal_size) /\ AnyIn(TopTierIndicators, Lower(PyStr(deal_size)))
              THEN << "High deal value (" \o PyStr(deal_size) \o ")" >> ELSE <<>>
        reasons == r1 \o r2 \o r3
    IN  [is_hot |-> score >= 75 \/ urgency = Str("immediate") \/ Len(reasons) >= 2,
         reason |-> IF Len(reasons) > 1 THEN Str(Join(", ", reasons)) ELSE None]

\* (variant of is_hot_lead: any one reason makes the lead hot)
is_hot_lead_AnyReason(score, urgency, deal_size) ==
    LET r1 == IF score >= 75
              THEN << "High lead score (" \o IntToStr(score) \o "/100)" >> ELSE <<>>
        r2 == IF urgency = Str("immediate") THEN << "Immediate timeline" >> ELSE <<>>
        r3 == IF Truthy(deal_size) /\ AnyIn(TopTierIndicators, Lower(PyStr(deal_size)))
              THEN << "High deal value (" \o PyStr(deal_size) \o ")" >> ELSE <<>>
        reasons == r1 \o r2 \o r3
    IN  [is_hot |-> Len(reasons) >= 1,
         reason |-> IF Len(reasons) > 0 THEN Str(Join(", ", reasons)) ELSE None]

\* is_hot_lead(score, urgency, deal_size) -> (is_hot, reason)
is_hot_lead(score, urgency, deal_size) ==
    LET r1 == IF score >= 75
              THEN << "High lead score (" \o IntToStr(score) \o "/100)" >> ELSE <<>>
        r2 == IF urgency = Str("immediate") THEN << "Immediate timeline" >> ELSE <<>>
        r3 == IF Truthy(deal_size) /\ AnyIn(TopTierIndicators, Lower(PyStr(deal_size)))
              THEN << "High deal value (" \o PyStr(deal_size) \o ")" >> ELSE <<>>
        reasons == r1 \o r2 \o r3
    IN  [is_hot |-> score >= 75 \/ urgency = Str("immediate") \/ Len(reasons) >= 2,
         reason |-> IF Len(reasons) > 0 THEN Str(Join(", ", reasons)) ELSE None]

(***************************************************************************)
(* Argument normalizer                                                     *)
(***************************************************************************)
\* the aliases table, in declaration order: <<canonical key, <<accepted names>> >>
aliases ==
    << <<"caller_name", <<"caller_name", "name", "caller", "callerFullName">> >>,
       <<"caller_phone", <<"caller_phone", "phone", "from", "caller_phone_number", "callerPhone">> >>,
       <<"caller_email", <<"caller_email", "email", "callerEmail">> >>,
       <<"caller_role", <<"caller_role", "role", "user_role">> >>,
       <<"asset_type", <<"asset_type", "asset", "property_type", "assetType">> >>,
       <<"location", <<"location", "city", "market">> >>,
       <<"deal_size", <<"deal_size", "value", "budget_range", "dealValue">> >>,
       <<"urgency", <<"urgency", "timeline">> >>,
       <<"inquiry_summary", <<"inquiry_summary", "inquiry", "summary", "notes">> >>,
       <<"additional_notes", <<"additional_notes", "notes", "extra_notes">> >>,
       <<"is_hot_lead", <<"is_hot_lead", "is_hot", "hot", "hot_lead">> >>,
       <<"conversation_topics", <<"conversation_topics", "topics">> >>,
       <<"questions_asked", <<"questions_asked", "questions">> >> >>

\* sum(aliases.values(), [])
AllAliasNames == UNION {{aliases[i][2][j] : j \in DOMAIN aliases[i][2]} : i \in DOMAIN aliases}

\* json.loads(text), then json.loads(text.replace("'", '"')), then {}
DecodeArguments(text) ==
    LET first == json_loads(text) IN
    IF first.ok THEN first.v
    ELSE LET second == json_loads(ReplaceChar(text, "'", "\"")) IN
         IF second.ok THEN second.v ELSE EmptyDict

\* (variant of FirstAlias: the last alias present with such a value wins)
FirstAlias_Last(arguments, names) ==
    LET hits == {j \in DOMAIN names :
                    HasKey(arguments, names[j]) /\ Get(arguments, names[j]) \notin {None, Str("")}}
    IN  IF hits = {} THEN 0 ELSE CHOOSE j \in hits : \A m \in hits : j >= m

\* index in names of the first alias present with a value other than None and "", 0 if none
FirstAlias(arguments, names) ==
    LET hits == {j \in DOMAIN names :
                    HasKey(arguments, names[j]) /\ Get(arguments, names[j]) \notin {None, Str("")}}
    IN  IF hits = {} THEN 0 ELSE CHOOSE j \in hits : \A m \in hits : j <= m

\* "ensure booleans are booleans"
CoerceHot(val) ==
    IF val.t = "str" THEN Bool(Lower(val.v) \in {"1", "true", "yes"}) ELSE Bool(Truthy(val))

\* (variant of NormalizeDecoded: a key that holds None is not copied)
NormalizeDecoded_DropsNull(arguments) ==
    IF arguments.t # "dict" THEN [ok |-> FALSE]
    ELSE LET found == {i \in DOMAIN aliases : FirstAlias(arguments, aliases[i][2]) # 0}
             other == {k \in DOMAIN arguments.v : k \notin AllAliasNames /\ arguments.v[k] # None}
             mapped(key) ==
                 LET i == CHOOSE n \in found : aliases[n][1] = key
                 IN  Get(arguments, aliases[i][2][FirstAlias(arguments, aliases[i][2])])
             canonical == [k \in {aliases[i][1] : i \in found} \cup other |->
                              IF k \in other THEN arguments.v[k] ELSE mapped(k)]
         IN  [ok |-> TRUE,
              v |-> Dict([k \in DOMAIN canonical |->
                            IF k = "is_hot_lead" THEN CoerceHot(canonical[k]) ELSE canonical[k]])]

\* the two loops and the coercion of normalize_parameters, on the decoded arguments
NormalizeDecoded(arguments) ==
    IF arguments.t # "dict" THEN [ok |-> FALSE]
    ELSE LET found == {i \in DOMAIN aliases : FirstAlias(arguments, aliases[i][2]) # 0}
             other == {k \in DOMAIN arguments.v : k \notin AllAliasNames}
             mapped(key) ==
                 LET i == CHOOSE n \in found : aliases[n][1] = key
                 IN  Get(arguments, aliases[i][2][FirstAlias(arguments, aliases[i][2])])
             canonical == [k \in {aliases[i][1] : i \in found} \cup other |->
                              IF k \in other THEN arguments.v[k] ELSE mapped(k)]
         IN  [ok |-> TRUE,
              v |-> Dict([k \in DOMAIN canonical |->
                            IF k = "is_hot_lead" THEN CoerceHot(canonical[k]) ELSE canonical[k]])]

\* normalize_parameters(arguments): [ok |-> TRUE, v |-> canonical], or [ok |-> FALSE] where it raises
normalize_parameters(arguments) ==
    IF ~Truthy(arguments) THEN [ok |-> TRUE, v |-> EmptyDict]
    ELSE NormalizeDecoded(IF arguments.t = "str" THEN DecodeArguments(arguments.v) ELSE arguments)

(***************************************************************************)
(* json.dumps of a handler result, an ordered list of <<key, value>> pairs *)
(* whose values are booleans and strings that need no escaping             *)
(***************************************************************************)
DumpScalar(val) ==
    CASE val.t = "str"  -> "\"" \o val.v \o "\""
      [] val.t = "bool" -> IF val.v THEN "true" ELSE "false"
      [] val.t = "none" -> "null"
      [] val.t = "int"  -> IntToStr(val.v)

json_dumps(pairs) ==
    "{"
    \o Join(", ",
            [i \in 1..Len(pairs) |-> "\"" \o pairs[i][1] \o "\": " \o DumpScalar(pairs[i][2])])
    \o "}"

(***************************************************************************)
(* Bounds of the model                                                     *)
(***************************************************************************)
\* tool calls in one webhook payload
MaxToolCalls == 2
\* tool calls handled over a whole run
MaxHandled == 3
\* sink calls that fail over a whole run
MaxFailures == 1
\* collect_caller_information events over a whole run of the specification of collect events
MaxCollects == 4
\* calls of a helper function on one input
MaxCalls == 2

(***************************************************************************)
(* State                                                                   *)
(***************************************************************************)
\* the requests in service: the sequential specification serves one at a time; in the
\* concurrent one each worker is a server process of its own, on the one datastore and spreadsheet
Workers == {"w1", "w2"}

VARIABLES
    supabase,            \* the datastore client was created at start-up
    google_sheet,        \* the spreadsheet handle was opened at start-up
    calls,               \* table calls, row i has surrogate id i
    conversation_topics, \* table conversation_topics, in insertion order
    questions_asked,     \* table questions_asked, in insertion order
    hot_leads,           \* table hot_leads, row i has id i and was created i-th
    callbacks,           \* table callbacks
    property_requests,   \* table property_requests
    sheet,               \* rows appended to the spreadsheet
    clock,               \* datetime.now() readings so far
    generated,           \* uuid4() values drawn so far
    handled,             \* tool calls taken in so far
    failures,            \* sink calls that failed so far
    pc,                  \* position of each request handler
    req,                 \* webhook-level locals of each request handler
    loc,                 \* tool-handler locals of each request handler
    response,            \* the last HTTP response each handler returned
    unit                 \* a helper function called on its own: its arguments and what it returned

db == <<calls, conversation_topics, questions_asked, hot_leads, callbacks, property_requests>>
config == <<supabase, google_sheet>>
counters == <<clock, generated, handled, failures>>
vars == <<supabase, google_sheet, calls, conversation_topics, questions_asked, hot_leads,
          callbacks, property_requests, sheet, clock, generated, handled, failures,
          pc, req, loc, response, unit>>

NoReq == [message_type |-> None, call_id |-> None, tool_calls |-> <<>>, idx |-> 0, results |-> <<>>]

NoLoc == [function_name |-> None, tool_call_id |-> None, parameters |-> EmptyDict,
          is_hot |-> FALSE, hot_reason |-> None, phone |-> "", numeric_score |-> 0,
          inserted_call_id |-> 0, k |-> 0, existing_hot |-> 0, db_call_id |-> 0, created_at |-> 0,
          ops |-> <<>>, handler_result |-> None]

NoResponse == [status |-> 0, body |-> None]

NoUnit == [fn |-> "", args |-> <<>>, ret |-> <<>>]

\* the tables and the spreadsheet are empty and no request has arrived
Fresh ==
    /\ calls = <<>>
    /\ conversation_topics = <<>>
    /\ questions_asked = <<>>
    /\ hot_leads = <<>>
    /\ callbacks = <<>>
    /\ property_requests = <<>>
    /\ sheet = <<>>
    /\ clock = 0
    /\ generated = 0
    /\ handled = 0
    /\ failures = 0
    /\ pc = [p \in Workers |-> "idle"]
    /\ req = [p \in Workers |-> NoReq]
    /\ loc = [p \in Workers |-> NoLoc]
    /\ response = [p \in Workers |-> NoResponse]

Init ==
    /\ supabase \in BOOLEAN
    /\ google_sheet \in BOOLEAN
    /\ Fresh
    /\ unit = NoUnit

(***************************************************************************)
(* Inputs: the request bodies the platform sends                           *)
(***************************************************************************)
ArgsHot ==
    Dict("phone" :> Str("555") @@ "urgency" :> Str("immediate")
         @@ "topics" :> List(<<Str("t1")>>) @@ "questions" :> List(<<Str("q1")>>))

ArgsCold ==
    Dict("caller_phone" :> Str("555") @@ "urgency" :> Str("just browsing")
         @@ "conversation_topics" :> List(<<Str("t2"), Str("t1")>>))

\* a computed hot lead that the caller declares not hot
ArgsDeclined ==
    Dict("caller_phone" :> Str("555") @@ "urgency" :> Str("immediate") @@ "is_hot_lead" :> Bool(FALSE))

\* a computed cold lead that the caller declares hot, with a reason
ArgsPromoted ==
    Dict("phone" :> Str("777") @@ "urgency" :> Str("just browsing") @@ "hot" :> Str("YES")
         @@ "urgency_reason" :> Str("vip"))

\* a phone number with a blank before it
ArgsPadded == Dict("phone" :> Str(" 555") @@ "urgency" :> Str("6+ months"))

ArgsCallback == Dict("preferred_date" :> Str("mon") @@ "preferred_time" :> Str("9am"))

ArgsFlag == Dict("urgency_reason" :> Str("mon") @@ "competition" :> Bool(TRUE))

\* {"id": ..., "function": {"name": ..., "arguments": ...}}
NestedToolCall(id, name, arguments) ==
    Dict("id" :> Str(id) @@ "function" :> Dict("name" :> Str(name) @@ "arguments" :> arguments))

\* {"toolCallId": ..., "name": ..., "arguments": ...}
FlatToolCall(id, name, arguments) ==
    Dict("toolCallId" :> Str(id) @@ "name" :> Str(name) @@ "arguments" :> arguments)

ToolCallInputs ==
    { NestedToolCall("A", "collect_caller_information", ArgsHot),
      FlatToolCall("B", "collectCallerInformation", ArgsCold),
      NestedToolCall("A", "collect_caller_information", Str("7")),
      NestedToolCall("B", "schedule_callback", ArgsCallback),
      FlatToolCall("A", "requestPropertyInformation", ArgsCold),
      NestedToolCall("B", "flag_hot_lead", ArgsFlag),
      NestedToolCall("A", "get_weather", EmptyDict),
      Dict("name" :> Str("flagHotLead")) }

ToolCallLists == UNION {[1..n -> ToolCallInputs] : n \in 0..MaxToolCalls}

\* {"message": {"type": "tool-calls", "toolCalls": [...]}, "call": {"id": ...}}
MessagePayload(call, tcs) ==
    Dict("message" :> Dict("type" :> Str("tool-calls") @@ "toolCalls" :> List(tcs))
         @@ "call" :> Dict("id" :> Str(call)))

\* {"type": "Tool-Calls", "tool_calls": [...]}: no call identifier anywhere
TopLevelPayload(tcs) == Dict("type" :> Str("Tool-Calls") @@ "tool_calls" :> List(tcs))

PayloadInputs ==
    {MessagePayload(c, tcs) : c \in {"c1", "c2"}, tcs \in ToolCallLists}
    \cup {TopLevelPayload(tcs) : tcs \in ToolCallLists}
    \cup { Dict("message" :> Dict("type" :> Str("end-of-call-report")) @@ "call" :> Dict("id" :> Str("c1"))),
           Dict("type" :> Str("status-update")
                @@ "toolCalls" :> List(<<NestedToolCall("A", "collect_caller_information", ArgsHot)>>)),
           Dict("call" :> Dict("id" :> Str("c2"))),
           List(<<>>) }

\* what request.json() gives: a decoded body, or a failure to decode
Bodies == {[ok |-> TRUE, json |-> b] : b \in PayloadInputs} \cup {[ok |-> FALSE]}

(***************************************************************************)
(* vapi_webhook: tolerant extraction                                       *)
(***************************************************************************)
\* (variant of ToolCallTypes: a status update is taken for a tool-calls message)
ToolCallTypes_WithStatusUpdate == {"tool-calls", "toolcalls", "tool_calls", "tool-calls-v1", "status-update"}

ToolCallTypes == {"tool-calls", "toolcalls", "tool_calls", "tool-calls-v1"}

ExtractMessage(payload) ==
    LET m == Or(Get(payload, "message"), Or(Get(payload, "data"), EmptyDict))
    IN  IF IsDict(m) THEN m ELSE EmptyDict

ExtractMessageType(payload) ==
    Or(Get(payload, "type"),
       Or(Get(ExtractMessage(payload), "type"),
          Or(Get(payload, "message_type"), Or(Get(payload, "messageType"), Str("unknown")))))

ExtractCallId(payload) ==
    LET call == Or(Get(payload, "call"), Or(Get(payload, "callData"), Or(Get(payload, "session"), EmptyDict)))
        inner == IF IsDict(call)
                 THEN Or(Get(call, "id"), Or(Get(call, "call_id"), Or(Get(call, "uuid"), Get(call, "session_id"))))
                 ELSE None
    IN  Or(inner, Or(Get(payload, "call_id"), Or(Get(payload, "callId"), Str("unknown"))))

ExtractToolCalls(payload) ==
    LET message == ExtractMessage(payload)
    IN  Or(Get(message, "toolCalls"),
           Or(Get(message, "tool_calls"),
              Or(Get(message, "toolcalls"),
                 Or(Get(payload, "toolCalls"), Or(Get(payload, "tool_calls"), List(<<>>))))))

IsToolCallsType(message_type) == Lower(PyStr(message_type)) \in ToolCallTypes

\* (variant of WebhookExcept: the exception leaves vapi_webhook)
WebhookExcept_Escapes(text) == [status |-> 500, body |-> None]

\* the body returned for an exception caught at the top level of vapi_webhook
WebhookExcept(text) ==
    [status |-> 200, body |-> Dict("status" :> Str("error") @@ "message" :> Str(text))]

\* the body returned after the dispatch loop
WebhookReturn(results) ==
    IF Len(results) > 0
    THEN [status |-> 200, body |-> Dict("results" :> List(results))]
    ELSE [status |-> 200, body |-> Dict("status" :> Str("success") @@ "message" :> Str("Processed successfully"))]

\* tool-call decoding of one element of the tool-calls array
ToolCallId(tool_call) == Or(Get(tool_call, "id"), Or(Get(tool_call, "toolCallId"), None))

FunctionData(tool_call) ==
    IF IsDict(Get(tool_call, "function")) THEN Get(tool_call, "function") ELSE tool_call

FunctionName(tool_call) ==
    LET fd == FunctionData(tool_call)
    IN  Or(Get(fd, "name"), Or(Get(fd, "function"), Or(Get(fd, "tool"), Or(Get(fd, "toolName"), Str("unknown")))))

ToolCallArguments(tool_call) ==
    LET fd == FunctionData(tool_call)
        direct == IF Get(fd, "arguments").t \in {"dict", "str"} THEN Get(fd, "arguments") ELSE None
        found == IF Truthy(direct) THEN direct
                 ELSE Or(Get(tool_call, "arguments"), Or(Get(tool_call, "params"), Or(Get(fd, "params"), EmptyDict)))
        decoded == IF found.t = "str" THEN DecodeArguments(found.v) ELSE found
    IN  Or(decoded, EmptyDict)

(***************************************************************************)
(* Tool results                                                            *)
(***************************************************************************)
\* a handler's result dict, as its ordered <<key, value>> pairs
Pairs(seq) == [t |-> "pairs", v |-> seq]

Success(text) == Pairs(<< <<"success", Bool(TRUE)>>, <<"message", Str(text)>> >>)
Failure(text) == Pairs(<< <<"success", Bool(FALSE)>>, <<"message", Str(text)>> >>)

\* which handler a function name is routed to
Route(function_name) ==
    CASE function_name \in {Str("collect_caller_information"), Str("collectCallerInformation")} -> "collect"
      [] function_name \in {Str("schedule_callback"), Str("scheduleCallback")} -> "callback"
      [] function_name \in {Str("request_property_information"), Str("requestPropertyInformation")} -> "property"
      [] function_name \in {Str("flag_hot_lead"), Str("flagHotLead")} -> "flag"
      [] OTHER -> "none"

\* (variant of HandlerExcept: the shape of the dispatcher's own except clause)
HandlerExcept_ErrorOnly(handler, text) == Pairs(<< <<"error", Str(text)>> >>)

\* the result a handler returns from its own except clause
HandlerExcept(handler, text) ==
    CASE handler = "collect"  -> Failure(text)
      [] handler = "callback" -> Failure("Error scheduling callback: " \o text)
      [] handler = "property" -> Failure("Error processing request: " \o text)
      [] handler = "flag"     -> Failure("Error flagging lead: " \o text)

\* the result a handler returns at its end
HandlerSuccess(handler, parameters) ==
    CASE handler = "collect"  -> Success("Caller info processed successfully")
      [] handler = "callback" ->
            Success("Callback scheduled for " \o PyStr(Get(parameters, "preferred_date"))
                    \o " " \o PyStr(Get(parameters, "preferred_time")))
      [] handler = "property" -> Success("Property information will be sent to " \o PyStr(Get(parameters, "email")))
      [] handler = "flag"     -> Success("Lead flagged as urgent and will receive priority attention")

\* handler_result of a function name that no branch of the dispatch matches
UnroutedResult(function_name) == None

\* json.dumps(handler_result) if it is a dict, else str(handler_result)
ResultText(handler_result) ==
    IF handler_result.t = "pairs" THEN json_dumps(handler_result.v) ELSE PyStr(handler_result)

\* the entry appended to results for one tool call
ResultEntry(tool_call_id, handler_result) ==
    Dict("toolCallId" :> tool_call_id @@ "result" :> Str(ResultText(handler_result)))

(***************************************************************************)
(* handle_collect_caller_info: the locals computed before the first sink   *)
(* call                                                                    *)
(***************************************************************************)
\* (variant of CollectPrelude: a computed hot lead stays hot whatever the caller supplies)
CollectPrelude_ComputedHotWins(arguments) ==
    LET numeric_score == IF ScoreRaises(arguments) THEN 0
                         ELSE Max(0, Min(100, calculate_lead_score(arguments)))
        computed == is_hot_lead(numeric_score, GetOr(arguments, "urgency", Str("")),
                                GetOr(arguments, "deal_size", Str("")))
        is_hot == computed.is_hot \/ Truthy(Get(arguments, "is_hot_lead"))
        hot_reason == Or(Get(arguments, "urgency_reason"),
                         Or(Get(arguments, "hot_lead_reason"), Or(computed.reason, Str("Not specified"))))
    IN  [numeric_score |-> numeric_score, is_hot |-> is_hot, hot_reason |-> hot_reason,
         parameters |-> SetKey(SetKey(SetKey(arguments, "lead_score", Num(numeric_score)),
                                      "is_hot_lead", Bool(is_hot)),
                               "hot_lead_reason", hot_reason)]

CollectPrelude(arguments) ==
    LET numeric_score == IF ScoreRaises(arguments) THEN 0
                         ELSE Max(0, Min(100, calculate_lead_score(arguments)))
        computed == is_hot_lead(numeric_score, GetOr(arguments, "urgency", Str("")),
                                GetOr(arguments, "deal_size", Str("")))
        provided_is_hot == Get(arguments, "is_hot_lead")
        is_hot == IF provided_is_hot = None THEN computed.is_hot ELSE Truthy(provided_is_hot)
        hot_reason == Or(Get(arguments, "urgency_reason"),
                         Or(Get(arguments, "hot_lead_reason"), Or(computed.reason, Str("Not specified"))))
    IN  [numeric_score |-> numeric_score, is_hot |-> is_hot, hot_reason |-> hot_reason,
         parameters |-> SetKey(SetKey(SetKey(arguments, "lead_score", Num(numeric_score)),
                                      "is_hot_lead", Bool(is_hot)),
                               "hot_lead_reason", hot_reason)]

\* iteration over a list (or over the characters of a string)
Items(val) ==
    CASE val.t = "list" -> val.v
      [] val.t = "str"  -> [i \in 1..Len(val.v) |-> Str(At(val.v, i))]

TopicItems(parameters) ==
    LET topics == GetOr(parameters, "conversation_topics", List(<<>>))
    IN  IF Truthy(topics) THEN Items(topics) ELSE <<>>

QuestionItems(parameters) ==
    LET questions == GetOr(parameters, "questions_asked", List(<<>>))
    IN  IF Truthy(questions) THEN Items(questions) ELSE <<>>

\* where handle_collect_caller_info goes once k topics are inserted
AfterQuestions(l, k) ==
    IF k < Len(QuestionItems(l.parameters)) THEN <<"c_questions", k>>
    ELSE IF l.is_hot THEN <<"c_hot_lookup", 0>>
    ELSE <<"return", 0>>

AfterTopics(l, k) ==
    IF k < Len(TopicItems(l.parameters)) THEN <<"c_topics", k>> ELSE AfterQuestions(l, 0)

(***************************************************************************)
(* Steps shared by the handlers                                            *)
(***************************************************************************)
\* the handler of worker p returns handler_result: results.append(...), next tool call
Return(p, l, handler_result) ==
    /\ req' = [req EXCEPT ![p].results = Append(@, ResultEntry(l.tool_call_id, handler_result)),
                          ![p].idx = @ + 1]
    /\ loc' = [loc EXCEPT ![p] = [l EXCEPT !.handler_result = handler_result]]
    /\ pc' = [pc EXCEPT ![p] = "loop"]

\* the handler of worker p goes on to position next = <<label, k>>, or returns
Goto(p, l, next) ==
    IF next[1] = "return"
    THEN Return(p, l, HandlerSuccess(Route(l.function_name), l.parameters))
    ELSE /\ pc' = [pc EXCEPT ![p] = next[1]]
         /\ loc' = [loc EXCEPT ![p] = [l EXCEPT !.k = next[2]]]
         /\ UNCHANGED req

\* l with one more sink call recorded: its name and its outcome, one of
\* "ok", "raised", "empty" (an insert that returns no row), "unconfigured" (no spreadsheet handle)
Did(l, op, outcome) == [l EXCEPT !.ops = Append(@, [op |-> op, outcome |-> outcome])]

(***************************************************************************)
(* vapi_webhook                                                            *)
(***************************************************************************)
\* worker p returns resp
Respond(p, resp) ==
    /\ response' = [response EXCEPT ![p] = resp]
    /\ pc' = [pc EXCEPT ![p] = "responded"]
    /\ UNCHANGED <<req, loc>>

\* a request arrives with one of bodies: the body is decoded and the type, call id and tool
\* calls extracted; limit bounds the tool calls taken in over a run
Receive(p, bodies, limit) ==
    /\ pc[p] = "idle"
    /\ \E body \in bodies :
          IF ~body.ok THEN
              /\ Respond(p, WebhookExcept("Expecting value"))
              /\ UNCHANGED handled
          ELSE IF ~IsDict(body.json) THEN
              /\ Respond(p, WebhookExcept("object has no attribute"))
              /\ UNCHANGED handled
          ELSE IF IsToolCallsType(ExtractMessageType(body.json)) THEN
              LET tool_calls == ExtractToolCalls(body.json) IN
              /\ handled + Len(tool_calls.v) <= limit
              /\ handled' = handled + Len(tool_calls.v)
              /\ pc' = [pc EXCEPT ![p] = "loop"]
              /\ req' = [req EXCEPT ![p] = [message_type |-> ExtractMessageType(body.json),
                                            call_id |-> ExtractCallId(body.json),
                                            tool_calls |-> tool_calls.v, idx |-> 0, results |-> <<>>]]
              /\ loc' = [loc EXCEPT ![p] = NoLoc]
              /\ response' = [response EXCEPT ![p] = NoResponse]
          ELSE
              /\ req' = [req EXCEPT ![p] = [NoReq EXCEPT !.message_type = ExtractMessageType(body.json),
                                                         !.call_id = ExtractCallId(body.json)]]
              /\ response' = [response EXCEPT ![p] = WebhookReturn(<<>>)]
              /\ pc' = [pc EXCEPT ![p] = "responded"]
              /\ UNCHANGED <<loc, handled>>
    /\ UNCHANGED <<db, config, unit, sheet, clock, generated, failures>>

WebhookBegin(p) == Receive(p, Bodies, MaxHandled)

\* one pass of the dispatch loop up to the handler's first sink call
ToolCallBegin(p) ==
    /\ pc[p] = "loop"
    /\ req[p].idx < Len(req[p].tool_calls)
    /\ \E tool_call \in {req[p].tool_calls[req[p].idx + 1]} :
       \E normalized \in {normalize_parameters(ToolCallArguments(tool_call))} :
       IF ~normalized.ok THEN
           /\ Respond(p, WebhookExcept("object has no attribute"))
       ELSE
           LET function_name == FunctionName(tool_call)
               handler == Route(function_name)
               l0 == [NoLoc EXCEPT !.function_name = function_name,
                                   !.tool_call_id = ToolCallId(tool_call),
                                   !.parameters = normalized.v]
           IN
           /\ UNCHANGED response
           /\ IF handler = "none" THEN Return(p, l0, UnroutedResult(function_name))
              ELSE IF handler = "collect" THEN
                  LET pre == CollectPrelude(normalized.v) IN
                  /\ pc' = [pc EXCEPT ![p] = "c_sheet"]
                  /\ loc' = [loc EXCEPT ![p] = [l0 EXCEPT !.parameters = pre.parameters,
                                                           !.numeric_score = pre.numeric_score,
                                                           !.is_hot = pre.is_hot,
                                                           !.hot_reason = pre.hot_reason]]
                  /\ UNCHANGED req
              ELSE IF ~supabase THEN Return(p, l0, HandlerSuccess(handler, normalized.v))
              ELSE Goto(p, l0, << CASE handler = "callback" -> "cb_lookup"
                                     [] handler = "property" -> "pr_lookup"
                                     [] handler = "flag" -> "fl_lookup", 0 >>)
    /\ UNCHANGED <<db, config, unit, sheet, counters>>

\* the loop is over: the response is sent
WebhookEnd(p) ==
    /\ pc[p] = "loop"
    /\ req[p].idx = Len(req[p].tool_calls)
    /\ Respond(p, WebhookReturn(req[p].results))
    /\ UNCHANGED <<db, config, unit, sheet, counters>>

\* the response is on its way and worker p is free for the next request
RequestEnd(p) ==
    /\ pc[p] = "responded"
    /\ pc' = [pc EXCEPT ![p] = "idle"]
    /\ response' = [response EXCEPT ![p] = NoResponse]
    /\ req' = [req EXCEPT ![p] = NoReq]
    /\ loc' = [loc EXCEPT ![p] = NoLoc]
    /\ UNCHANGED <<db, config, unit, sheet, counters>>

\* the datastore call that worker p is about to make raises
DatastorePcs ==
    {"c_lookup", "c_update", "c_del_topics", "c_del_questions", "c_insert", "c_topics", "c_questions",
     "c_hot_lookup", "c_hot_lookup_phone", "c_hot_write", "c_patch",
     "cb_lookup", "cb_insert", "pr_lookup", "pr_insert",
     "fl_lookup", "fl_hot_lookup", "fl_hot_write", "fl_patch"}

\* the datastore call made at a position
OpAt(label, l) ==
    CASE label \in {"c_lookup", "cb_lookup", "pr_lookup", "fl_lookup"} -> "calls.select"
      [] label \in {"c_update", "c_patch", "fl_patch"} -> "calls.update"
      [] label = "c_insert" -> "calls.insert"
      [] label = "c_del_topics" -> "conversation_topics.delete"
      [] label = "c_del_questions" -> "questions_asked.delete"
      [] label = "c_topics" -> "conversation_topics.insert"
      [] label = "c_questions" -> "questions_asked.insert"
      [] label \in {"c_hot_lookup", "c_hot_lookup_phone", "fl_hot_lookup"} -> "hot_leads.select"
      [] label \in {"c_hot_write", "fl_hot_write"} ->
            IF l.existing_hot # 0 THEN "hot_leads.update" ELSE "hot_leads.insert"
      [] label = "cb_insert" -> "callbacks.insert"
      [] label = "pr_insert" -> "property_requests.insert"

DatastoreRaises(p) ==
    /\ pc[p] \in DatastorePcs
    /\ failures < MaxFailures
    /\ failures' = failures + 1
    /\ Return(p, Did(loc[p], OpAt(pc[p], loc[p]), "raised"),
              HandlerExcept(Route(loc[p].function_name), "datastore request failed"))
    /\ UNCHANGED <<db, config, unit, sheet, clock, generated, handled, response>>

(***************************************************************************)
(* log_to_google_sheets                                                    *)
(***************************************************************************)
SheetRow(parameters) ==
    [caller_phone |-> GetOr(parameters, "caller_phone", Str("")),
     hot_lead |-> IF Truthy(GetOr(parameters, "is_hot_lead", Bool(FALSE))) THEN "YES" ELSE "NO",
     lead_score |-> calculate_lead_score(parameters)]

\* (variant of AfterSheet: the datastore steps run only after a row was appended)
AfterSheet_NeedsRow(p, l) ==
    IF supabase /\ l.ops[Len(l.ops)].outcome = "ok"
    THEN /\ clock' = clock + 1
         /\ Goto(p, [l EXCEPT !.created_at = clock + 1,
                              !.phone = LET ph == Or(Get(l.parameters, "caller_phone"), Str(""))
                                        IN  Strip(ph.v)],
                 <<"c_lookup", 0>>)
    ELSE /\ UNCHANGED clock
         /\ Return(p, l, HandlerSuccess("collect", l.parameters))

\* after log_to_google_sheets: call_data is built if the datastore is configured
AfterSheet(p, l) ==
    IF supabase
    THEN /\ clock' = clock + 1
         /\ Goto(p, [l EXCEPT !.created_at = clock + 1,
                              !.phone = LET ph == Or(Get(l.parameters, "caller_phone"), Str(""))
                                        IN  Strip(ph.v)],
                 <<"c_lookup", 0>>)
    ELSE /\ UNCHANGED clock
         /\ Return(p, l, HandlerSuccess("collect", l.parameters))

LogToSheets(p) ==
    /\ pc[p] = "c_sheet"
    /\ \/ /\ ~google_sheet
          /\ AfterSheet(p, Did(loc[p], "log_to_google_sheets", "unconfigured"))
          /\ UNCHANGED <<sheet, failures>>
       \/ /\ google_sheet /\ ~ScoreRaises(loc[p].parameters)
          /\ sheet' = Append(sheet, SheetRow(loc[p].parameters))
          /\ AfterSheet(p, Did(loc[p], "log_to_google_sheets", "ok"))
          /\ UNCHANGED failures
       \/ \* calculate_lead_score or append_row raises inside log_to_google_sheets, which returns False
          /\ google_sheet
          /\ IF ScoreRaises(loc[p].parameters) THEN UNCHANGED failures
             ELSE failures < MaxFailures /\ failures' = failures + 1
          /\ AfterSheet(p, Did(loc[p], "log_to_google_sheets", "raised"))
          /\ UNCHANGED sheet
    /\ UNCHANGED <<db, config, unit, generated, handled, response>>

(***************************************************************************)
(* handle_collect_caller_info: the datastore steps                         *)
(***************************************************************************)
UsableCallId(call_id) == Truthy(call_id) /\ call_id # Str("unknown")

\* (variant of CallsByCallId: the filter matches no row)
CallsByCallId_NoMatch(call_id) == {}

\* ids of the rows of calls whose call_id column equals call_id
CallsByCallId(call_id) == {i \in DOMAIN calls : calls[i].call_id = call_id}

\* ids of the rows .eq("caller_phone", phone).order("created_at", desc=True).limit(1) may return
LatestCallsByPhone(phone) ==
    LET hits == {i \in DOMAIN calls : calls[i].caller_phone = Str(phone)}
    IN  {i \in hits : \A j \in hits : calls[j].created_at <= calls[i].created_at}

\* call_data, as the columns the model keeps
CallData(p, l) ==
    [call_id |-> req[p].call_id,
     caller_phone |-> Get(l.parameters, "caller_phone"),
     is_hot_lead |-> l.is_hot,
     lead_score |-> GetOr(l.parameters, "lead_score", Num(0)).v,
     hot_lead_reason |-> Get(l.parameters, "hot_lead_reason"),
     created_at |-> l.created_at]

WithId(row, id) == [x \in DOMAIN row \cup {"id"} |-> IF x = "id" THEN id ELSE row[x]]

\* the columns of row that data names take data's values
Patch(row, data) == [x \in DOMAIN row |-> IF x \in DOMAIN data THEN data[x] ELSE row[x]]

\* uuid4(): a value no earlier call returned
Uuid4(n) == "uuid-" \o IntToStr(n)

CollectLookup(p) ==
    /\ pc[p] = "c_lookup"
    /\ LET l == Did(loc[p], "calls.select", "ok")
           hits == IF UsableCallId(req[p].call_id) THEN CallsByCallId(req[p].call_id)
                   ELSE LatestCallsByPhone(l.phone)
       IN  \/ /\ hits # {}
              /\ \E existing_id \in hits :
                    Goto(p, [l EXCEPT !.inserted_call_id = existing_id], <<"c_update", 0>>)
           \/ /\ hits = {}
              /\ Goto(p, l, <<"c_insert", 0>>)
    /\ UNCHANGED <<db, config, unit, sheet, counters, response>>

CollectUpdate(p) ==
    /\ pc[p] = "c_update"
    /\ calls' = [calls EXCEPT ![loc[p].inserted_call_id] = Patch(@, CallData(p, loc[p]))]
    /\ Goto(p, Did(loc[p], "calls.update", "ok"), <<"c_del_topics", 0>>)
    /\ UNCHANGED <<conversation_topics, questions_asked, hot_leads, callbacks, property_requests,
                   config, unit, sheet, counters, response>>

CollectDeleteTopics(p) ==
    /\ pc[p] = "c_del_topics"
    /\ conversation_topics' = SelectSeq(conversation_topics, LAMBDA r : r.call_id # loc[p].inserted_call_id)
    /\ Goto(p, Did(loc[p], "conversation_topics.delete", "ok"), <<"c_del_questions", 0>>)
    /\ UNCHANGED <<calls, questions_asked, hot_leads, callbacks, property_requests,
                   config, unit, sheet, counters, response>>

\* (variant of CollectDeleteQuestions: the old rows are kept)
CollectDeleteQuestions_Keep(p) ==
    /\ pc[p] = "c_del_questions"
    /\ LET l == Did(loc[p], "questions_asked.delete", "ok") IN Goto(p, l, AfterTopics(l, 0))
    /\ UNCHANGED <<db, config, unit, sheet, counters, response>>

CollectDeleteQuestions(p) ==
    /\ pc[p] = "c_del_questions"
    /\ questions_asked' = SelectSeq(questions_asked, LAMBDA r : r.call_id # loc[p].inserted_call_id)
    /\ LET l == Did(loc[p], "questions_asked.delete", "ok") IN Goto(p, l, AfterTopics(l, 0))
    /\ UNCHANGED <<calls, conversation_topics, hot_leads, callbacks, property_requests,
                   config, unit, sheet, counters, response>>

\* (variant of CollectInsert: a row whose call_id is already stored is not stored again)
CollectInsert_OnConflict(p) ==
    /\ pc[p] = "c_insert"
    /\ \E ids \in {CallsByCallId(req[p].call_id)} :
          /\ calls' = IF ids = {} THEN Append(calls, WithId(CallData(p, loc[p]), Len(calls) + 1)) ELSE calls
          /\ Goto(p, [Did(loc[p], "calls.insert", "ok") EXCEPT
                         !.inserted_call_id = IF ids = {} THEN Len(calls) + 1 ELSE CHOOSE i \in ids : TRUE],
                  AfterTopics(loc[p], 0))
    /\ UNCHANGED <<conversation_topics, questions_asked, hot_leads, callbacks, property_requests,
                   config, unit, sheet, counters, response>>

CollectInsert(p) ==
    /\ pc[p] = "c_insert"
    /\ \/ \* the row is stored and returned
          LET fresh == ~UsableCallId(req[p].call_id)
              data == IF fresh
                      THEN [CallData(p, loc[p]) EXCEPT !.call_id = Str(Uuid4(generated + 1))]
                      ELSE CallData(p, loc[p])
              l == [Did(loc[p], "calls.insert", "ok") EXCEPT !.inserted_call_id = Len(calls) + 1]
          IN  /\ generated' = IF fresh THEN generated + 1 ELSE generated
              /\ calls' = Append(calls, WithId(data, Len(calls) + 1))
              /\ Goto(p, l, AfterTopics(l, 0))
              /\ UNCHANGED failures
       \/ \* the insert returns no row: nothing is stored, "Failed to insert call"
          /\ failures < MaxFailures
          /\ failures' = failures + 1
          /\ generated' = IF UsableCallId(req[p].call_id) THEN generated ELSE generated + 1
          /\ Return(p, Did(loc[p], "calls.insert", "empty"), HandlerSuccess("collect", loc[p].parameters))
          /\ UNCHANGED calls
    /\ UNCHANGED <<conversation_topics, questions_asked, hot_leads, callbacks, property_requests,
                   config, unit, sheet, clock, handled, response>>

CollectInsertTopic(p) ==
    /\ pc[p] = "c_topics"
    /\ conversation_topics' =
          Append(conversation_topics,
                 [call_id |-> loc[p].inserted_call_id, topic |-> TopicItems(loc[p].parameters)[loc[p].k + 1]])
    /\ LET l == Did(loc[p], "conversation_topics.insert", "ok") IN Goto(p, l, AfterTopics(l, loc[p].k + 1))
    /\ UNCHANGED <<calls, questions_asked, hot_leads, callbacks, property_requests,
                   config, unit, sheet, counters, response>>

CollectInsertQuestion(p) ==
    /\ pc[p] = "c_questions"
    /\ questions_asked' =
          Append(questions_asked,
                 [call_id |-> loc[p].inserted_call_id, question |-> QuestionItems(loc[p].parameters)[loc[p].k + 1]])
    /\ LET l == Did(loc[p], "questions_asked.insert", "ok") IN Goto(p, l, AfterQuestions(l, loc[p].k + 1))
    /\ UNCHANGED <<calls, conversation_topics, hot_leads, callbacks, property_requests,
                   config, unit, sheet, counters, response>>

HotLeadsByCallId(id) == {i \in DOMAIN hot_leads : hot_leads[i].call_id = id}

\* ids .eq("caller_phone", phone).order("created_at", desc=True).limit(1) returns
LatestHotLeadsByPhone(phone) ==
    LET hits == {i \in DOMAIN hot_leads : hot_leads[i].caller_phone = Str(phone)}
    IN  {i \in hits : \A j \in hits : j <= i}

CollectHotLookup(p) ==
    /\ pc[p] = "c_hot_lookup"
    /\ LET l == Did(loc[p], "hot_leads.select", "ok")
           hits == HotLeadsByCallId(l.inserted_call_id)
       IN  \/ /\ hits # {}
              /\ \E h \in hits : Goto(p, [l EXCEPT !.existing_hot = h], <<"c_hot_write", 0>>)
           \/ /\ hits = {}
              /\ Goto(p, l, IF Len(l.phone) > 0 THEN <<"c_hot_lookup_phone", 0>> ELSE <<"c_hot_write", 0>>)
    /\ UNCHANGED <<db, config, unit, sheet, counters, response>>

CollectHotLookupByPhone(p) ==
    /\ pc[p] = "c_hot_lookup_phone"
    /\ LET l == Did(loc[p], "hot_leads.select", "ok")
           hits == LatestHotLeadsByPhone(l.phone)
       IN  \/ /\ hits # {}
              /\ \E h \in hits : Goto(p, [l EXCEPT !.existing_hot = h], <<"c_hot_write", 0>>)
           \/ /\ hits = {}
              /\ Goto(p, l, <<"c_hot_write", 0>>)
    /\ UNCHANGED <<db, config, unit, sheet, counters, response>>

\* hot_lead_data of the automatic path
CollectHotLeadData(l) ==
    [call_id |-> l.inserted_call_id, caller_phone |-> Str(l.phone), urgency_reason |-> l.hot_reason]

\* (variant of CollectHotWrite: a row is inserted whether or not one was found)
CollectHotWrite_AlwaysInsert(p) ==
    /\ pc[p] = "c_hot_write"
    /\ hot_leads' = Append(hot_leads,
                           WithId(CollectHotLeadData(loc[p]) @@ [has_competition |-> None],
                                  Len(hot_leads) + 1))
    /\ Goto(p, Did(loc[p], "hot_leads.insert", "ok"), <<"c_patch", 0>>)
    /\ UNCHANGED <<calls, conversation_topics, questions_asked, callbacks, property_requests,
                   config, unit, sheet, counters, response>>

CollectHotWrite(p) ==
    /\ pc[p] = "c_hot_write"
    /\ \/ /\ loc[p].existing_hot # 0
          /\ hot_leads' = [hot_leads EXCEPT ![loc[p].existing_hot] = Patch(@, CollectHotLeadData(loc[p]))]
          /\ Goto(p, Did(loc[p], "hot_leads.update", "ok"), <<"c_patch", 0>>)
       \/ /\ loc[p].existing_hot = 0
          /\ hot_leads' = Append(hot_leads,
                                 WithId(CollectHotLeadData(loc[p]) @@ [has_competition |-> None],
                                        Len(hot_leads) + 1))
          /\ Goto(p, Did(loc[p], "hot_leads.insert", "ok"), <<"c_patch", 0>>)
    /\ UNCHANGED <<calls, conversation_topics, questions_asked, callbacks, property_requests,
                   config, unit, sheet, counters, response>>

CollectPatch(p) ==
    /\ pc[p] = "c_patch"
    /\ calls' = [calls EXCEPT ![loc[p].inserted_call_id] =
                    Patch(@, [is_hot_lead |-> TRUE, hot_lead_reason |-> loc[p].hot_reason])]
    /\ Goto(p, Did(loc[p], "calls.update", "ok"), <<"return", 0>>)
    /\ UNCHANGED <<conversation_topics, questions_asked, hot_leads, callbacks, property_requests,
                   config, unit, sheet, counters, response>>

(***************************************************************************)
(* handle_callback_request, handle_property_request, handle_hot_lead_flag  *)
(***************************************************************************)
\* (variant of LookupCall: a miss goes on to the write)
LookupCall_WriteOnMiss(p, found, missing) ==
    LET l == Did(loc[p], "calls.select", "ok")
        hits == CallsByCallId(req[p].call_id)
    IN  \/ /\ hits # {}
           /\ \E id \in hits : Goto(p, [l EXCEPT !.db_call_id = id], <<found, 0>>)
        \/ /\ hits = {}
           /\ Goto(p, l, <<found, 0>>)

\* supabase.table("calls").select("id").eq("call_id", call_id), then data[0]["id"] if any
LookupCall(p, found, missing) ==
    LET l == Did(loc[p], "calls.select", "ok")
        hits == CallsByCallId(req[p].call_id)
    IN  \/ /\ hits # {}
           /\ \E id \in hits : Goto(p, [l EXCEPT !.db_call_id = id], <<found, 0>>)
        \/ /\ hits = {}
           /\ Goto(p, l, <<missing, 0>>)

CallbackLookup(p) ==
    /\ pc[p] = "cb_lookup"
    /\ LookupCall(p, "cb_insert", "return")
    /\ UNCHANGED <<db, config, unit, sheet, counters, response>>

\* (variant of CallbackInsert: a call that has a callback row keeps that one row)
CallbackInsert_Upsert(p) ==
    /\ pc[p] = "cb_insert"
    /\ LET row == [call_id |-> loc[p].db_call_id,
                   preferred_date |-> Get(loc[p].parameters, "preferred_date"),
                   preferred_time |-> Get(loc[p].parameters, "preferred_time"),
                   status |-> Str("scheduled")]
       IN  callbacks' = IF \E i \in DOMAIN callbacks : callbacks[i].call_id = loc[p].db_call_id
                        THEN [i \in DOMAIN callbacks |->
                                 IF callbacks[i].call_id = loc[p].db_call_id THEN row ELSE callbacks[i]]
                        ELSE Append(callbacks, row)
    /\ Goto(p, Did(loc[p], "callbacks.insert", "ok"), <<"return", 0>>)
    /\ UNCHANGED <<calls, conversation_topics, questions_asked, hot_leads, property_requests,
                   config, unit, sheet, counters, response>>

CallbackInsert(p) ==
    /\ pc[p] = "cb_insert"
    /\ callbacks' = Append(callbacks,
                           [call_id |-> loc[p].db_call_id,
                            preferred_date |-> Get(loc[p].parameters, "preferred_date"),
                            preferred_time |-> Get(loc[p].parameters, "preferred_time"),
                            status |-> Str("scheduled")])
    /\ Goto(p, Did(loc[p], "callbacks.insert", "ok"), <<"return", 0>>)
    /\ UNCHANGED <<calls, conversation_topics, questions_asked, hot_leads, property_requests,
                   config, unit, sheet, counters, response>>

PropertyLookup(p) ==
    /\ pc[p] = "pr_lookup"
    /\ LookupCall(p, "pr_insert", "return")
    /\ UNCHANGED <<db, config, unit, sheet, counters, response>>

PropertyInsert(p) ==
    /\ pc[p] = "pr_insert"
    /\ property_requests' = Append(property_requests,
                                   [call_id |-> loc[p].db_call_id,
                                    email |-> Get(loc[p].parameters, "email"),
                                    location |-> Get(loc[p].parameters, "location"),
                                    status |-> Str("pending")])
    /\ Goto(p, Did(loc[p], "property_requests.insert", "ok"), <<"return", 0>>)
    /\ UNCHANGED <<calls, conversation_topics, questions_asked, hot_leads, callbacks,
                   config, unit, sheet, counters, response>>

FlagLookup(p) ==
    /\ pc[p] = "fl_lookup"
    /\ LookupCall(p, "fl_hot_lookup", "return")
    /\ UNCHANGED <<db, config, unit, sheet, counters, response>>

FlagHotLookup(p) ==
    /\ pc[p] = "fl_hot_lookup"
    /\ LET l == Did(loc[p], "hot_leads.select", "ok")
           hits == HotLeadsByCallId(l.db_call_id)
       IN  \/ /\ hits # {}
              /\ \E h \in hits : Goto(p, [l EXCEPT !.existing_hot = h], <<"fl_hot_write", 0>>)
           \/ /\ hits = {}
              /\ Goto(p, l, <<"fl_hot_write", 0>>)
    /\ UNCHANGED <<db, config, unit, sheet, counters, response>>

\* hot_lead_data of the manual path
FlagHotLeadData(l) ==
    [call_id |-> l.db_call_id,
     caller_phone |-> Get(l.parameters, "caller_phone"),
     urgency_reason |-> Get(l.parameters, "urgency_reason"),
     has_competition |-> GetOr(l.parameters, "competition", Bool(FALSE))]

\* (variant of FlagHotWrite: a row is inserted whether or not one exists)
FlagHotWrite_AlwaysInsert(p) ==
    /\ pc[p] = "fl_hot_write"
    /\ hot_leads' = Append(hot_leads, WithId(FlagHotLeadData(loc[p]), Len(hot_leads) + 1))
    /\ Goto(p, Did(loc[p], "hot_leads.insert", "ok"), <<"fl_patch", 0>>)
    /\ UNCHANGED <<calls, conversation_topics, questions_asked, callbacks, property_requests,
                   config, unit, sheet, counters, response>>

FlagHotWrite(p) ==
    /\ pc[p] = "fl_hot_write"
    /\ \/ /\ loc[p].existing_hot # 0
          \* .update(hot_lead_data).eq("call_id", db_call_id): every row of that call
          /\ hot_leads' = [i \in DOMAIN hot_leads |->
                              IF hot_leads[i].call_id = loc[p].db_call_id
                              THEN Patch(hot_leads[i], FlagHotLeadData(loc[p]))
                              ELSE hot_leads[i]]
          /\ Goto(p, Did(loc[p], "hot_leads.update", "ok"), <<"fl_patch", 0>>)
       \/ /\ loc[p].existing_hot = 0
          /\ hot_leads' = Append(hot_leads, WithId(FlagHotLeadData(loc[p]), Len(hot_leads) + 1))
          /\ Goto(p, Did(loc[p], "hot_leads.insert", "ok"), <<"fl_patch", 0>>)
    /\ UNCHANGED <<calls, conversation_topics, questions_asked, callbacks, property_requests,
                   config, unit, sheet, counters, response>>

FlagPatch(p) ==
    /\ pc[p] = "fl_patch"
    /\ calls' = [calls EXCEPT ![loc[p].db_call_id] =
                    Patch(@, [is_hot_lead |-> TRUE,
                              hot_lead_reason |-> Get(loc[p].parameters, "urgency_reason")])]
    /\ Goto(p, Did(loc[p], "calls.update", "ok"), <<"return", 0>>)
    /\ UNCHANGED <<conversation_topics, questions_asked, hot_leads, callbacks, property_requests,
                   config, unit, sheet, counters, response>>

(***************************************************************************)
(* Specification: requests are handled one after the other                 *)
(***************************************************************************)
\* the steps of a request that has arrived
Serve(p) ==
    \/ ToolCallBegin(p)
    \/ WebhookEnd(p)
    \/ RequestEnd(p)
    \/ DatastoreRaises(p)
    \/ LogToSheets(p)
    \/ CollectLookup(p)
    \/ CollectUpdate(p)
    \/ CollectDeleteTopics(p)
    \/ CollectDeleteQuestions(p)
    \/ CollectInsert(p)
    \/ CollectInsertTopic(p)
    \/ CollectInsertQuestion(p)
    \/ CollectHotLookup(p)
    \/ CollectHotLookupByPhone(p)
    \/ CollectHotWrite(p)
    \/ CollectPatch(p)
    \/ CallbackLookup(p)
    \/ CallbackInsert(p)
    \/ PropertyLookup(p)
    \/ PropertyInsert(p)
    \/ FlagLookup(p)
    \/ FlagHotLookup(p)
    \/ FlagHotWrite(p)
    \/ FlagPatch(p)

Step(p) == WebhookBegin(p) \/ Serve(p)

Next == Step("w1")

Spec == Init /\ [][Next]_vars

(***************************************************************************)
(* Specification: collect_caller_information deliveries for one call,      *)
(* served by two server processes. Inside a process a handler runs from    *)
(* the decoding of the body to its return without yielding (every sink     *)
(* call is a blocking call); the processes share only the datastore and    *)
(* the spreadsheet, where each request of each process is one step.        *)
(***************************************************************************)
\* the steps of a request whose tool calls are collect_caller_information
ServeCollect(p) ==
    \/ ToolCallBegin(p)
    \/ WebhookEnd(p)
    \/ RequestEnd(p)
    \/ DatastoreRaises(p)
    \/ LogToSheets(p)
    \/ CollectLookup(p)
    \/ CollectUpdate(p)
    \/ CollectDeleteTopics(p)
    \/ CollectDeleteQuestions(p)
    \/ CollectInsert(p)
    \/ CollectInsertTopic(p)
    \/ CollectInsertQuestion(p)
    \/ CollectHotLookup(p)
    \/ CollectHotLookupByPhone(p)
    \/ CollectHotWrite(p)
    \/ CollectPatch(p)

\* the deliveries, and redeliveries, of the collect_caller_information events of call c1
RetriedBodies ==
    {[ok |-> TRUE, json |-> MessagePayload("c1", <<NestedToolCall("A", "collect_caller_information", a)>>)] :
        a \in {ArgsHot, ArgsCold}}

ConcurrentNext == \E p \in Workers : Receive(p, RetriedBodies, MaxHandled) \/ ServeCollect(p)

ConcurrentSpec == Init /\ [][ConcurrentNext]_vars


(***************************************************************************)
(* Properties                                                              *)
(***************************************************************************)
\* the handler of the tool call that worker p took up last has returned
Completed(p) == pc[p] \in {"loop", "responded"} /\ req[p].idx >= 1

\* ... and it was the given handler
Ran(p, handler) == Completed(p) /\ Route(loc[p].function_name) = handler

Succeeded(r) == r.t = "pairs" /\ r.v[1] = <<"success", Bool(TRUE)>>

FailedWithMessage(r) ==
    /\ r.t = "pairs"
    /\ Len(r.v) = 2
    /\ r.v[1] = <<"success", Bool(FALSE)>>
    /\ r.v[2][1] = "message"
    /\ r.v[2][2].t = "str"

HasOutcome(l, op, outcome) == \E i \in DOMAIN l.ops : l.ops[i] = [op |-> op, outcome |-> outcome]

\* the first datastore write of a collect was the update of an existing row
UpdatedExisting(l) == Len(l.ops) >= 3 /\ l.ops[3] = [op |-> "calls.update", outcome |-> "ok"]

RecordsWith(call_id) == {i \in DOMAIN calls : calls[i].call_id = call_id}

HotLeadsOf(id) == {i \in DOMAIN hot_leads : hot_leads[i].call_id = id}

TopicsOf(id) ==
    LET rows == SelectSeq(conversation_topics, LAMBDA r : r.call_id = id)
    IN  [i \in 1..Len(rows) |-> rows[i].topic]

QuestionsOf(id) ==
    LET rows == SelectSeq(questions_asked, LAMBDA r : r.call_id = id)
    IN  [i \in 1..Len(rows) |-> rows[i].question]

IsPrefix(a, b) == Len(a) <= Len(b) /\ \A i \in 1..Len(a) : a[i] = b[i]

---------------------------------------------------------------------------
\* C1, first half: no two rows of calls carry the same call identifier, unless it is "unknown"
C1_OnePerCallId ==
    \A i, j \in DOMAIN calls :
        (calls[i].call_id = calls[j].call_id /\ calls[i].call_id # Str("unknown")) => i = j

\* C1, second half: a step that adds to calls adds one row, whose call identifier no row carried;
\* so a collect whose identifier has a row adds none
C1_InsertOnlyWhenNew ==
    Len(calls') # Len(calls) =>
        /\ Len(calls') = Len(calls) + 1
        /\ IsPrefix(calls, calls')
        /\ RecordsWith(calls'[Len(calls')].call_id) = {}
        /\ req["w1"].call_id # Str("unknown") => calls'[Len(calls')].call_id = req["w1"].call_id

\* C1: after sequentially processed collect_caller_information events at most one CallRecord
\* carries a call identifier other than "unknown"; a second collect with the same identifier
\* updates the existing record and creates none
C1_AtMostOneCallRecord == []C1_OnePerCallId /\ [][C1_InsertOnlyWhenNew]_vars

\* a second collect for call c1 has updated the one record of c1, beside the record of another call
C1_Witness ==
    /\ Ran("w1", "collect")
    /\ Succeeded(loc["w1"].handler_result)
    /\ req["w1"].call_id = Str("c1")
    /\ UpdatedExisting(loc["w1"])
    /\ Cardinality(RecordsWith(Str("c1"))) = 1
    /\ Len(calls) = 2

---------------------------------------------------------------------------
\* C2: after a collect_caller_information that succeeded on an existing CallRecord, the topic rows
\* and the question rows of that record are the items of the event's lists, one row per item in
\* order, and none for an empty or missing list
C2_ChildrenReplaced ==
    (Ran("w1", "collect") /\ Succeeded(loc["w1"].handler_result) /\ UpdatedExisting(loc["w1"])) =>
        /\ TopicsOf(loc["w1"].inserted_call_id) = TopicItems(loc["w1"].parameters)
        /\ QuestionsOf(loc["w1"].inserted_call_id) = QuestionItems(loc["w1"].parameters)

\* the only record had one topic and one question from a first, hot collect; the second collect
\* brought two topics and no questions list
C2_Witness ==
    /\ Ran("w1", "collect")
    /\ Succeeded(loc["w1"].handler_result)
    /\ UpdatedExisting(loc["w1"])
    /\ failures = 0
    /\ Len(calls) = 1
    /\ Len(sheet) = 2 /\ sheet[1].hot_lead = "YES"
    /\ ~HasKey(loc["w1"].parameters, "questions_asked")
    /\ Len(conversation_topics) = 2
    /\ questions_asked = <<>>

---------------------------------------------------------------------------
\* C3, as one step: callbacks and property_requests only grow at their end; a lookup that finds
\* the call goes on to the insert, and an insert that does not raise adds exactly one row, for
\* that call
C3_Step ==
    /\ IsPrefix(callbacks, callbacks')
    /\ IsPrefix(property_requests, property_requests')
    /\ (/\ pc["w1"] \in {"cb_lookup", "pr_lookup"}
        /\ RecordsWith(req["w1"].call_id) # {}
        /\ ~HasOutcome(loc'["w1"], "calls.select", "raised"))
       => /\ pc'["w1"] = (IF pc["w1"] = "cb_lookup" THEN "cb_insert" ELSE "pr_insert")
          /\ loc'["w1"].db_call_id \in RecordsWith(req["w1"].call_id)
    /\ (pc["w1"] = "cb_insert" /\ HasOutcome(loc'["w1"], "callbacks.insert", "ok"))
       => /\ Len(callbacks') = Len(callbacks) + 1
          /\ callbacks'[Len(callbacks')].call_id = loc["w1"].db_call_id
          /\ Succeeded(loc'["w1"].handler_result)
    /\ (pc["w1"] = "pr_insert" /\ HasOutcome(loc'["w1"], "property_requests.insert", "ok"))
       => /\ Len(property_requests') = Len(property_requests) + 1
          /\ property_requests'[Len(property_requests')].call_id = loc["w1"].db_call_id
          /\ Succeeded(loc'["w1"].handler_result)

\* C3: schedule_callback and request_property_information are append-only: an invocation whose
\* call identifier resolves to a CallRecord inserts exactly one new row and never updates or
\* deletes one, so repeated invocations for one call give as many rows
C3_AppendOnly == [][C3_Step]_vars

\* two schedule_callback invocations with the same arguments for the same call left two equal rows
C3_Witness ==
    /\ Ran("w1", "callback")
    /\ Succeeded(loc["w1"].handler_result)
    /\ Len(callbacks) = 2
    /\ callbacks[1] = callbacks[2]

---------------------------------------------------------------------------
\* C4: after a flag_hot_lead that succeeded for a call identifier that resolves to a CallRecord,
\* exactly one HotLeadRecord references that record and the record's hot flag is true
C4_OneHotLeadPerFlaggedCall ==
    (Ran("w1", "flag") /\ Succeeded(loc["w1"].handler_result) /\ loc["w1"].db_call_id # 0) =>
        /\ Cardinality(HotLeadsOf(loc["w1"].db_call_id)) = 1
        /\ calls[loc["w1"].db_call_id].is_hot_lead = TRUE

\* the only collect was not hot and there were three tool calls in all: the first flag_hot_lead
\* inserted the hot lead and the second one updated it
C4_Witness ==
    /\ Ran("w1", "flag")
    /\ Succeeded(loc["w1"].handler_result)
    /\ HasOutcome(loc["w1"], "hot_leads.update", "ok")
    /\ failures = 0
    /\ handled = 3
    /\ Len(calls) = 1
    /\ Len(sheet) = 1 /\ sheet[1].hot_lead = "NO"
    /\ Len(hot_leads) = 1

---------------------------------------------------------------------------
\* C5, as one step: the lookup of schedule_callback, request_property_information or
\* flag_hot_lead that completes and finds no row ends the handler there
C5_Step ==
    (/\ pc["w1"] \in {"cb_lookup", "pr_lookup", "fl_lookup"}
     /\ RecordsWith(req["w1"].call_id) = {}
     /\ loc'["w1"].ops = Append(loc["w1"].ops, [op |-> "calls.select", outcome |-> "ok"]))
    => /\ UNCHANGED <<db, sheet>>
       /\ pc'["w1"] = "loop"
       /\ Succeeded(loc'["w1"].handler_result)
       /\ Len(req'["w1"].results) = Len(req["w1"].results) + 1

\* C5, as a state: such a handler has made the lookup and no other sink call
C5_OnlyTheLookup ==
    (/\ Completed("w1")
     /\ Route(loc["w1"].function_name) \in {"callback", "property", "flag"}
     /\ supabase
     /\ loc["w1"].db_call_id = 0
     /\ ~HasOutcome(loc["w1"], "calls.select", "raised"))
    => /\ loc["w1"].ops = << [op |-> "calls.select", outcome |-> "ok"] >>
       /\ Succeeded(loc["w1"].handler_result)

\* C5: when the lookup by call identifier of schedule_callback, request_property_information or
\* flag_hot_lead completes and finds no CallRecord, the handler writes nothing and returns
\* success = true
C5_LookupMissWritesNothing == []C5_OnlyTheLookup /\ [][C5_Step]_vars

\* flag_hot_lead for a call without a record, while another call has one
C5_Witness ==
    /\ Ran("w1", "flag")
    /\ supabase
    /\ loc["w1"].ops = << [op |-> "calls.select", outcome |-> "ok"] >>
    /\ loc["w1"].db_call_id = 0
    /\ Succeeded(loc["w1"].handler_result)
    /\ Len(calls) = 1
    /\ hot_leads = <<>>

---------------------------------------------------------------------------
\* C6: a tool call whose name is none of the routed names gets the result
\* {"error": "Unknown function: <name>"}, with no sink call, and the response carries the results
C6_UnknownFunctionResult ==
    Ran("w1", "none") =>
        /\ req["w1"].results[req["w1"].idx].v["result"] =
              Str(json_dumps(<< <<"error", Str("Unknown function: " \o PyStr(loc["w1"].function_name))>> >>))
        /\ loc["w1"].ops = <<>>
        /\ (pc["w1"] = "responded" /\ req["w1"].idx = Len(req["w1"].tool_calls))
           => HasKey(response["w1"].body, "results")

\* what the code gives for such a tool call: the text of None, no sink call
C6_Witness ==
    /\ Ran("w1", "none")
    /\ req["w1"].results[req["w1"].idx] = Dict("toolCallId" :> Str("A") @@ "result" :> Str("None"))
    /\ loc["w1"].function_name = Str("get_weather")
    /\ loc["w1"].ops = <<>>
    /\ pc["w1"] = "responded"
    /\ HasKey(response["w1"].body, "results")

---------------------------------------------------------------------------
\* C7: the response to a tool-calls webhook with N tool calls carries exactly N results, the
\* i-th with the toolCallId of the i-th tool call
C7_OneResultPerToolCall ==
    (pc["w1"] = "responded" /\ Len(req["w1"].tool_calls) >= 1) =>
        /\ HasKey(response["w1"].body, "results")
        /\ LET results == response["w1"].body.v["results"].v
           IN  /\ Len(results) = Len(req["w1"].tool_calls)
               /\ \A i \in 1..Len(results) :
                     results[i].v["toolCallId"] = ToolCallId(req["w1"].tool_calls[i])

\* a batch of two whose first tool call, a collect, was handled and wrote its rows, and whose
\* second has the JSON number 7 for arguments: one result was ready, the response carries none
C7_Witness ==
    /\ pc["w1"] = "responded"
    /\ Len(req["w1"].tool_calls) = 2
    /\ Get(FunctionData(req["w1"].tool_calls[2]), "arguments") = Str("7")
    /\ Len(req["w1"].results) = 1
    /\ Ran("w1", "collect")
    /\ Succeeded(loc["w1"].handler_result)
    /\ Len(calls) = 1
    /\ failures = 0
    /\ response["w1"].body = Dict("status" :> Str("error") @@ "message" :> Str("object has no attribute"))

---------------------------------------------------------------------------
\* C8, as one step: a datastore call of handle_collect_caller_info that raises ends the handler
\* with {success: false, message}, appended to results like any result, and changes no table and
\* no spreadsheet row
C8_Step ==
    (/\ Route(loc["w1"].function_name) = "collect"
     /\ pc["w1"] \in DatastorePcs
     /\ Len(loc'["w1"].ops) = Len(loc["w1"].ops) + 1
     /\ loc'["w1"].ops[Len(loc'["w1"].ops)].outcome = "raised")
    => /\ UNCHANGED <<db, sheet>>
       /\ pc'["w1"] = "loop"
       /\ FailedWithMessage(loc'["w1"].handler_result)
       /\ req'["w1"].results =
             Append(req["w1"].results,
                    Dict("toolCallId" :> loc["w1"].tool_call_id
                         @@ "result" :> Str(json_dumps(loc'["w1"].handler_result.v))))
       /\ response' = response

\* C8: a failure of any datastore step of handle_collect_caller_info becomes the result
\* {success: false, message: ...} and does not reach the dispatcher; the spreadsheet row and the
\* datastore writes made before it stay
C8_FailureIsAResult == [][C8_Step]_vars

\* the insert of the question raised after the call row, the topic row and the spreadsheet row
\* were written: they are all still there
C8_Witness ==
    /\ Ran("w1", "collect")
    /\ FailedWithMessage(loc["w1"].handler_result)
    /\ loc["w1"].ops[Len(loc["w1"].ops)] = [op |-> "questions_asked.insert", outcome |-> "raised"]
    /\ HasOutcome(loc["w1"], "calls.insert", "ok")
    /\ Len(sheet) = 1
    /\ Len(calls) = 1
    /\ Len(conversation_topics) = 1
    /\ questions_asked = <<>>

---------------------------------------------------------------------------
\* C9, as a state: a collect that is about to log has made no sink call, and one that is past it
\* has made the log call first and only once
C9_LogFirstAndOnce ==
    Route(loc["w1"].function_name) = "collect" =>
        IF pc["w1"] = "c_sheet" THEN loc["w1"].ops = <<>>
        ELSE /\ Len(loc["w1"].ops) >= 1
             /\ \A i \in 1..Len(loc["w1"].ops) : (loc["w1"].ops[i].op = "log_to_google_sheets") <=> (i = 1)

\* C9, as one step: whatever the log call gives, the datastore steps follow if the datastore is
\* configured, and the log call itself touches no table
C9_Step ==
    pc["w1"] = "c_sheet" =>
        /\ pc'["w1"] = (IF supabase THEN "c_lookup" ELSE "loop")
        /\ UNCHANGED db
        /\ Len(loc'["w1"].ops) = 1
        /\ loc'["w1"].ops[1].outcome = "ok" <=> Len(sheet') = Len(sheet) + 1
        /\ loc'["w1"].ops[1].outcome # "ok" => sheet' = sheet
        /\ ~supabase => Succeeded(loc'["w1"].handler_result)

\* C9: every collect_caller_information invocation attempts the spreadsheet append exactly once
\* and before its first datastore operation, whether or not the datastore is configured, and a
\* failed or unconfigured spreadsheet does not stop the datastore steps
C9_SheetFirst == []C9_LogFirstAndOnce /\ [][C9_Step]_vars

\* the append raised, and the collect went on to insert the call and ended in success
C9_Witness ==
    /\ Ran("w1", "collect")
    /\ Succeeded(loc["w1"].handler_result)
    /\ loc["w1"].ops[1] = [op |-> "log_to_google_sheets", outcome |-> "raised"]
    /\ HasOutcome(loc["w1"], "calls.insert", "ok")
    /\ google_sheet
    /\ sheet = <<>>
    /\ Len(calls) = 1

---------------------------------------------------------------------------
\* one of the three bodies vapi_webhook can return, with status 200
ResponseShape(r) ==
    /\ r.status = 200
    /\ r.body.t = "dict"
    /\ \/ /\ DOMAIN r.body.v = {"results"}
          /\ r.body.v["results"].t = "list"
       \/ /\ DOMAIN r.body.v = {"status", "message"}
          /\ r.body.v["status"] \in {Str("success"), Str("error")}
          /\ r.body.v["message"].t = "str"

C10_Shape == pc["w1"] = "responded" => ResponseShape(response["w1"])

\* the response is given once: nothing follows it but the end of the request
C10_Once ==
    /\ pc["w1"] = "responded" => (pc'["w1"] = "idle" /\ response'["w1"] = NoResponse)
    /\ response'["w1"] # response["w1"] => (pc["w1"] = "responded" \/ pc'["w1"] = "responded")

\* how far each position is from the end of its handler
PositionRank ==
    [ loop |-> 13, c_sheet |-> 12, c_lookup |-> 11, c_update |-> 10, c_del_topics |-> 9,
      c_del_questions |-> 8, c_insert |-> 8, c_topics |-> 7, c_questions |-> 6,
      c_hot_lookup |-> 5, c_hot_lookup_phone |-> 4, c_hot_write |-> 3, c_patch |-> 2,
      cb_lookup |-> 2, cb_insert |-> 1, pr_lookup |-> 2, pr_insert |-> 1,
      fl_lookup |-> 4, fl_hot_lookup |-> 3, fl_hot_write |-> 2, fl_patch |-> 1 ]

\* a request in service is at one of the positions for which the handlers have a step
C10_AtAPosition == pc["w1"] \in DOMAIN PositionRank \cup {"idle", "responded"}

\* what is left of a request: the tool calls not yet answered, the position in the handler of
\* the current one, the list items not yet inserted
Variant(position, r, l) ==
    IF position \in {"idle", "responded"} THEN <<0, 0, 0>>
    ELSE << Len(r.tool_calls) - r.idx + 1,
            PositionRank[position],
            CASE position = "c_topics" -> Len(TopicItems(l.parameters)) - l.k
              [] position = "c_questions" -> Len(QuestionItems(l.parameters)) - l.k
              [] OTHER -> 0 >>

Less(a, b) ==
    \/ a[1] < b[1]
    \/ a[1] = b[1] /\ a[2] < b[2]
    \/ a[1] = b[1] /\ a[2] = b[2] /\ a[3] < b[3]

\* every step of a request in service brings it nearer to its response
C10_Decreases ==
    pc["w1"] \notin {"idle", "responded"} =>
        /\ \A i \in 1..3 : Variant(pc["w1"], req["w1"], loc["w1"])[i] >= 0
        /\ Less(Variant(pc'["w1"], req'["w1"], loc'["w1"]), Variant(pc["w1"], req["w1"], loc["w1"]))

\* C10: every request to /webhook/vapi, whatever the payload and whatever the sink calls do, ends
\* after finitely many steps with exactly one response, whose body is {results: [...]},
\* {status: "success", ...} or {status: "error", message: ...}, with status 200
C10_AlwaysOneOfThreeBodies ==
    /\ []C10_Shape
    /\ []C10_AtAPosition
    /\ [][C10_Once]_vars
    /\ [][C10_Decreases]_vars

\* the error body after a datastore failure in the first tool call and arguments that are no
\* mapping in the second
C10_Witness ==
    /\ pc["w1"] = "responded"
    /\ response["w1"].body = Dict("status" :> Str("error") @@ "message" :> Str("object has no attribute"))
    /\ req["w1"].idx = 1
    /\ failures = 1

(***************************************************************************)
(* Specification: collect_caller_information events, one after the other,  *)
(* for two calls and without a call identifier                             *)
(***************************************************************************)
CollectBodies ==
    {[ok |-> TRUE, json |-> b] :
        b \in UNION {{MessagePayload("c1", <<FlatToolCall("A", "collectCallerInformation", a)>>),
                      MessagePayload("c2", <<FlatToolCall("A", "collectCallerInformation", a)>>),
                      TopLevelPayload(<<FlatToolCall("A", "collectCallerInformation", a)>>)} : a \in {ArgsCold, ArgsPadded}}
              \cup {MessagePayload("c1", <<FlatToolCall("A", "collectCallerInformation", a)>>) : a \in {ArgsHot, ArgsDeclined, ArgsPromoted}}}

CollectNext == Receive("w1", CollectBodies, MaxCollects) \/ ServeCollect("w1")

CollectSpec == Init /\ [][CollectNext]_vars

(***************************************************************************)
(* Specification: the helper functions called on their own, each on one    *)
(* input drawn at the start                                                *)
(***************************************************************************)
\* a key that the input does not have
Absent == [t |-> "absent"]

\* the dict of the <<key, value>> pairs whose value is not Absent
FromPairs(pairs) ==
    Dict([k \in {pairs[i][1] : i \in {j \in DOMAIN pairs : pairs[j][2] # Absent}} |->
             pairs[CHOOSE i \in DOMAIN pairs : pairs[i][1] = k][2]])

UnitInputs ==
    [ calculate_lead_score |->
        { << FromPairs(<< <<"urgency", u>>, <<"deal_size", d>>, <<"caller_role", r>>,
                          <<"asset_type", a>>, <<"sentiment", m>>, <<"caller_email", e>> >>) >> :
            u \in {Absent, Str("immediate"), Str("1-3 months"), Str("3-6 months"), Str("6+ months"),
                   Str("just browsing"), Str("Immediate")},
            d \in {Absent, Str(""), Str("$10M"), Str("1m-10m"), Str("1.5m"), Str("750K"), Str("tbd")},
            r \in {Absent, Str("buyer"), Str("investor"), Str("developer"), Str("seller"), Str("broker"),
                   Str("tenant"), Str("landlord"), Str("agent")},
            a \in {Absent, Str("office"), Str("mixed-use"), Str("retail")},
            m \in {Absent, Str("very_positive"), Str("positive"), Str("neutral"), Str("negative"),
                   Str("frustrated"), Str("angry")},
            e \in {Absent, Str("a@b.co"), Str("")} },
      is_hot_lead |->
        { <<score, urgency, deal_size>> :
            score \in {0, 10, 74, 75, 80, 100},
            urgency \in {Str("immediate"), Str("Immediate"), Str("just browsing"), Str("")},
            deal_size \in {None, Str(""), Str("$10M"), Str("2 Million"), Str("$1M"), Str("500k")} },
      normalize_parameters |->
        { << FromPairs(<< <<"caller_phone", p1>>, <<"phone", p2>>, <<"callerPhone", p5>>,
                          <<"inquiry", i>>, <<"notes", n>>, <<"extra_notes", x>> >>) >> :
            p1 \in {Absent, None, Str(""), Str("551")},
            p2 \in {Absent, None, Str(""), Str("552")},
            p5 \in {Absent, None, Str(""), Str("555")},
            i \in {Absent, None, Str(""), Str("inquiry")},
            n \in {Absent, None, Str(""), Str("notes")},
            x \in {Absent, None, Str(""), Str("extra")} }
        \cup
        { << FromPairs(<< <<"is_hot_lead", h1>>, <<"is_hot", h2>>, <<"hot", h3>>, <<"sentiment", m>> >>) >> :
            h1 \in {Absent, Str(""), Bool(FALSE), Bool(TRUE)},
            h2 \in {Absent, None, Str("yes"), Str("No"), Num(0)},
            h3 \in {Absent, Str("TRUE"), Num(1)},
            m \in {Absent, Str("positive")} }
        \cup
        { << FromPairs(<< <<"sentiment", m>>, <<"budget", b>>, <<"Phone", c>>, <<"phone", p>>, <<"hot", h>> >>) >> :
            m \in {Absent, None, Str(""), Str("positive")},
            b \in {Absent, Num(0), Bool(FALSE), List(<<Str("t1")>>)},
            c \in {Absent, Str("777")},
            p \in {Absent, Str("555")},
            h \in {Absent, Str("yes")} },
      \* <<the "arguments" of a tool call, the same arguments as a native object>>
      arguments |->
        { <<given, Dict("phone" :> Str("555") @@ "is_hot" :> Bool(TRUE))>> :
            given \in { Dict("phone" :> Str("555") @@ "is_hot" :> Bool(TRUE)),
                        Str("{\"phone\": \"555\", \"is_hot\": true}"),
                        Str("{'phone': '555', 'is_hot': true}") } }
        \cup { << Str("{'caller_name': 'O'Brien'}"), Dict("caller_name" :> Str("O'Brien")) >> }
        \cup { <<given, EmptyDict>> :
                 given \in { Str("not json"), Str("{'phone': "), Str("\"text\""), Str("null"), Str("0"),
                             Str("7"), Str("[1]"), Str("true") } } ]

\* the variables of the service, which a helper function neither reads nor writes
service == <<db, config, sheet, counters, pc, req, loc, response>>

UnitInit ==
    /\ supabase = TRUE
    /\ google_sheet = TRUE
    /\ Fresh
    /\ \E fn \in DOMAIN UnitInputs : \E args \in UnitInputs[fn] : unit = [fn |-> fn, args |-> args, ret |-> <<>>]

\* the call of fn can be made: fn is the function under test and has calls left
Callable(fn) == unit.fn = fn /\ Len(unit.ret) < MaxCalls

CallScore ==
    /\ Callable("calculate_lead_score")
    /\ unit' = [unit EXCEPT !.ret = Append(@, Num(calculate_lead_score(unit.args[1])))]
    /\ UNCHANGED service

CallIsHot ==
    /\ Callable("is_hot_lead")
    /\ unit' = [unit EXCEPT !.ret = Append(@, is_hot_lead(unit.args[1], unit.args[2], unit.args[3]))]
    /\ UNCHANGED service

CallNormalize ==
    /\ Callable("normalize_parameters")
    /\ unit' = [unit EXCEPT !.ret = Append(@, normalize_parameters(unit.args[1]))]
    /\ UNCHANGED service

\* the arguments of a tool call as vapi_webhook finds, decodes and normalizes them
CallArguments ==
    /\ Callable("arguments")
    /\ unit' = [unit EXCEPT !.ret = Append(@, normalize_parameters(ToolCallArguments(
                     NestedToolCall("A", "collect_caller_information", unit.args[1]))))]
    /\ UNCHANGED service

UnitNext == CallScore \/ CallIsHot \/ CallNormalize \/ CallArguments

UnitSpec == UnitInit /\ [][UnitNext]_vars

---------------------------------------------------------------------------
\* C11, as one step: the insert looks at no row: whatever calls holds by then, an insert that
\* returns its row adds a row with the request's call identifier
C11_InsertUnconditional ==
    \A p \in Workers :
        (/\ pc[p] = "c_insert"
         /\ loc'[p].ops = Append(loc[p].ops, [op |-> "calls.insert", outcome |-> "ok"]))
        => /\ Len(calls') = Len(calls) + 1
           /\ calls'[Len(calls')].call_id = req[p].call_id
           /\ loc'[p].inserted_call_id = Len(calls')

\* C11, as a state: a lookup that follows an insert finds its row, so an identifier gets no more
\* records than there are processes that missed it together
C11_AtMostOnePerProcess == Cardinality(RecordsWith(Str("c1"))) <= Cardinality(Workers)

\* C11: handlers of concurrently delivered webhooks interleave between the lookup and the write:
\* two concurrent collect_caller_information events with one call identifier and no record can
\* both miss in the lookup and both insert, which leaves two CallRecords for that identifier
C11_DuplicateInsertRace == []C11_AtMostOnePerProcess /\ [][C11_InsertUnconditional]_vars

\* both processes have completed a collect for call c1 whose lookup missed and whose insert
\* returned its row: calls holds two records of c1
C11_Witness ==
    /\ \A p \in Workers :
          /\ Ran(p, "collect")
          /\ req[p].call_id = Str("c1")
          /\ Succeeded(loc[p].handler_result)
          /\ Len(loc[p].ops) >= 3
          /\ loc[p].ops[2] = [op |-> "calls.select", outcome |-> "ok"]
          /\ loc[p].ops[3] = [op |-> "calls.insert", outcome |-> "ok"]
    /\ Cardinality(RecordsWith(Str("c1"))) = 2
    /\ Len(calls) = 2

---------------------------------------------------------------------------
\* the arguments of the tool call that worker p answered last, as the handler received them
GivenArguments(p) == normalize_parameters(ToolCallArguments(req[p].tool_calls[req[p].idx])).v

\* the classification that is_hot_lead computes for them
ComputedHot(arguments) ==
    is_hot_lead(Max(0, Min(100, calculate_lead_score(arguments))),
                GetOr(arguments, "urgency", Str("")), GetOr(arguments, "deal_size", Str("")))

RanHotLeadSync(l) == \E i \in DOMAIN l.ops : l.ops[i].op \in {"hot_leads.select", "hot_leads.update", "hot_leads.insert"}

\* C12: in collect_caller_information a caller-supplied is_hot_lead overrides the computed
\* classification in both directions (supplied false on a computed hot lead persists not-hot and
\* runs no hot-lead sync, supplied true on a computed cold lead persists hot), the computed flag
\* is used only when none is supplied, and a caller-supplied reason is persisted in place of the
\* computed reason text
C12_SuppliedWins ==
    (Ran("w1", "collect") /\ Succeeded(loc["w1"].handler_result) /\ loc["w1"].inserted_call_id # 0) =>
        LET given == GivenArguments("w1")
            supplied == Get(given, "is_hot_lead")
            reason == Or(Get(given, "urgency_reason"), Get(given, "hot_lead_reason"))
            computed == ComputedHot(given)
            row == calls[loc["w1"].inserted_call_id]
        IN  /\ row.is_hot_lead = (IF supplied = None THEN computed.is_hot ELSE supplied.v)
            /\ row.is_hot_lead <=> RanHotLeadSync(loc["w1"])
            /\ row.hot_lead_reason = (IF Truthy(reason) THEN reason ELSE Or(computed.reason, Str("Not specified")))
            /\ row.is_hot_lead => \E h \in HotLeadsOf(loc["w1"].inserted_call_id) :
                                      hot_leads[h].urgency_reason = row.hot_lead_reason
            /\ HasOutcome(loc["w1"], "log_to_google_sheets", "ok")
               => sheet[Len(sheet)].hot_lead = (IF row.is_hot_lead THEN "YES" ELSE "NO")

\* call c1 was first declared hot with the reason "vip" although computed cold (its hot lead row
\* carries that reason), then declared not hot although computed hot: the record is not hot and
\* this second event ran no hot-lead sync
C12_Witness ==
    /\ Ran("w1", "collect")
    /\ Succeeded(loc["w1"].handler_result)
    /\ UpdatedExisting(loc["w1"])
    /\ Get(GivenArguments("w1"), "is_hot_lead") = Bool(FALSE)
    /\ ComputedHot(GivenArguments("w1")).is_hot
    /\ calls[loc["w1"].inserted_call_id].is_hot_lead = FALSE
    /\ ~RanHotLeadSync(loc["w1"])
    /\ Len(sheet) = 2 /\ sheet[1].hot_lead = "YES" /\ sheet[2].hot_lead = "NO"
    /\ Len(hot_leads) = 1 /\ hot_leads[1].urgency_reason = Str("vip")

---------------------------------------------------------------------------
\* C13: at most one HotLeadRecord references any CallRecord, after any mix of
\* collect_caller_information events (automatic hot-lead sync, with its phone fallback) and
\* flag_hot_lead events (manual path) processed one after the other
C13_AtMostOneHotLeadPerCall ==
    \A id \in DOMAIN calls : Cardinality(HotLeadsOf(id)) <= 1

\* the hot lead of call c1 went to call c2 through the phone fallback of c2's collect, and the
\* flag_hot_lead of c1 then inserted a new one: two hot leads, one for each call
C13_Witness ==
    /\ Ran("w1", "flag")
    /\ Succeeded(loc["w1"].handler_result)
    /\ HasOutcome(loc["w1"], "hot_leads.insert", "ok")
    /\ Len(calls) = 2
    /\ Len(hot_leads) = 2
    /\ hot_leads[1].call_id = 2 /\ hot_leads[1].has_competition = None
    /\ hot_leads[2].call_id = 1 /\ hot_leads[2].has_competition = Bool(TRUE)

---------------------------------------------------------------------------
\* the records that carry the phone number of the event that worker p is handling
SamePhone(p) == {i \in DOMAIN calls : calls[i].caller_phone = Get(loc[p].parameters, "caller_phone")}

\* the most recently created of a set of records: row i was created i-th
LastCreated(ids) == CHOOSE i \in ids : \A j \in ids : j <= i

C14_Step ==
    (/\ pc["w1"] = "c_lookup"
     /\ ~UsableCallId(req["w1"].call_id)
     /\ Truthy(Get(loc["w1"].parameters, "caller_phone"))
     /\ SamePhone("w1") # {}
     /\ loc'["w1"].ops = Append(loc["w1"].ops, [op |-> "calls.select", outcome |-> "ok"]))
    => /\ pc'["w1"] = "c_update"
       /\ loc'["w1"].inserted_call_id = LastCreated(SamePhone("w1"))

\* C14: a collect_caller_information event without usable call identifier whose non-empty phone
\* number is the phone number of at least one CallRecord updates the most recently created of
\* those records and inserts nothing
C14_PhoneFallbackUpdatesLatest == [][C14_Step]_vars

\* calls c1 and c2 have the same phone; c1's record, the older one, was updated last, and the
\* event without identifier has now updated that older record
C14_Witness ==
    /\ Ran("w1", "collect")
    /\ ~UsableCallId(req["w1"].call_id)
    /\ UpdatedExisting(loc["w1"])
    /\ loc["w1"].inserted_call_id = 1
    /\ Get(loc["w1"].parameters, "caller_phone") = Str("555")
    /\ Len(calls) = 2
    /\ calls[1].caller_phone = Str("555")
    /\ calls[2].caller_phone = Str("555")
    /\ calls[2].call_id = Str("c2")

---------------------------------------------------------------------------
Scored == unit.fn = "calculate_lead_score" /\ Len(unit.ret) > 0

\* C15: for every combination of urgency, deal size, role, asset type, sentiment and email
\* presence calculate_lead_score returns an integer from 0 to 100, and the same input gives the
\* same score at every call
C15_Range ==
    Scored => /\ \A i \in DOMAIN unit.ret : unit.ret[i].t = "int" /\ unit.ret[i].v \in 0..100
              /\ \A i, j \in DOMAIN unit.ret : unit.ret[i] = unit.ret[j]

\* C15: ... and it reads and writes no state: a call changes nothing but its own return value
C15_Pure == (unit'.ret # unit.ret) => (UNCHANGED service /\ unit'.args = unit.args)

C15_ScoreInRange == []C15_Range /\ [][C15_Pure]_vars

\* an immediate buyer of a $10M office with an email, very positive, was scored twice: 100 and 100
C15_Witness ==
    /\ Scored
    /\ unit.args[1] = Dict("urgency" :> Str("immediate") @@ "deal_size" :> Str("$10M")
                            @@ "caller_role" :> Str("buyer") @@ "asset_type" :> Str("office")
                            @@ "sentiment" :> Str("very_positive") @@ "caller_email" :> Str("a@b.co"))
    /\ unit.ret = <<Num(100), Num(100)>>

---------------------------------------------------------------------------
\* the points the scoring tables give to one field of an input
UrgencyPoints(v) ==
    CASE v = Str("immediate") -> 30 [] v = Str("1-3 months") -> 25 [] v = Str("3-6 months") -> 15
      [] v = Str("6+ months") -> 5 [] OTHER -> 0

DealSizePoints(v) ==
    IF v \in {Absent, Str("")} THEN 0
    ELSE IF \E i \in {"10m", "million", "20m", "50m"} : Contains(i, Lower(v.v)) THEN 25
    ELSE IF \E i \in {"5m", "1m", "2m"} : Contains(i, Lower(v.v)) THEN 20
    ELSE IF \E i \in {"500k", "750k"} : Contains(i, Lower(v.v)) THEN 15
    ELSE 10

RolePoints(v) ==
    CASE v \in {Str("buyer"), Str("investor")} -> 15 [] v = Str("developer") -> 12
      [] v = Str("seller") -> 10 [] v = Str("broker") -> 8
      [] v \in {Str("tenant"), Str("landlord")} -> 5 [] OTHER -> 0

AssetPoints(v) ==
    IF v \in {Str("multifamily"), Str("industrial"), Str("mixed-use"), Str("office")} THEN 10
    ELSE IF v \in {Absent, Str("")} THEN 0 ELSE 5

SentimentPoints(v) ==
    CASE v = Str("very_positive") -> 10 [] v = Str("positive") -> 8 [] v = Str("negative") -> 2
      [] v = Str("frustrated") -> 0 [] OTHER -> 5

EmailPoints(v) == IF v \in {Absent, Str("")} THEN 0 ELSE 10

PlainSum(data) ==
    UrgencyPoints(GetOr(data, "urgency", Absent)) + DealSizePoints(GetOr(data, "deal_size", Absent))
    + RolePoints(GetOr(data, "caller_role", Absent)) + AssetPoints(GetOr(data, "asset_type", Absent))
    + SentimentPoints(GetOr(data, "sentiment", Absent)) + EmailPoints(GetOr(data, "caller_email", Absent))

\* C16: calculate_lead_score is the plain sum of the urgency, deal-size, role, asset-type and
\* sentiment table values plus 10 for an email; the sum never exceeds 100, so that the final
\* clamp changes nothing; the empty input scores 5 and the all-maximum input scores 100
C16_PlainSum ==
    Scored =>
        /\ PlainSum(unit.args[1]) <= 100
        /\ \A i \in DOMAIN unit.ret : unit.ret[i] = Num(PlainSum(unit.args[1]))
        /\ unit.args[1] = EmptyDict => unit.ret[1] = Num(5)
        /\ ( /\ UrgencyPoints(Get(unit.args[1], "urgency")) = 30
             /\ DealSizePoints(GetOr(unit.args[1], "deal_size", Absent)) = 25
             /\ RolePoints(Get(unit.args[1], "caller_role")) = 15
             /\ AssetPoints(GetOr(unit.args[1], "asset_type", Absent)) = 10
             /\ SentimentPoints(GetOr(unit.args[1], "sentiment", Absent)) = 10
             /\ EmailPoints(GetOr(unit.args[1], "caller_email", Absent)) = 10 )
           => unit.ret[1] = Num(100)

\* the empty input was scored 5, on the default of the sentiment alone
C16_Witness == Scored /\ unit.args[1] = EmptyDict /\ unit.ret[1] = Num(5)

---------------------------------------------------------------------------
\* the three reasons of a hot lead, stated on the arguments of the call
HighScore(args) == args[1] >= 75
ImmediateTimeline(args) == args[2] = Str("immediate")
HighDealValue(args) ==
    /\ args[3] \notin {None, Str("")}
    /\ \E i \in {"10m", "million", "20m", "50m"} : Contains(i, Lower(args[3].v))

\* the texts of the reasons that hold, in the order score, timeline, deal value
ReasonTexts(args) ==
    (IF HighScore(args) THEN << "High lead score (" \o IntToStr(args[1]) \o "/100)" >> ELSE <<>>)
    \o (IF ImmediateTimeline(args) THEN << "Immediate timeline" >> ELSE <<>>)
    \o (IF HighDealValue(args) THEN << "High deal value (" \o args[3].v \o ")" >> ELSE <<>>)

CommaJoined(texts) ==
    CASE Len(texts) = 1 -> texts[1]
      [] Len(texts) = 2 -> texts[1] \o ", " \o texts[2]
      [] Len(texts) = 3 -> texts[1] \o ", " \o texts[2] \o ", " \o texts[3]

\* C17: is_hot_lead collects the reasons high score (score >= 75), immediate timeline
\* (urgency == "immediate") and high deal value (deal size of the top tier); hot is
\* score >= 75 or urgency == "immediate" or at least two reasons; the reason is the reasons
\* joined by commas in that order, and None exactly when no reason was collected
C17_HotAndReason ==
    (unit.fn = "is_hot_lead") =>
        \A i \in DOMAIN unit.ret :
            /\ unit.ret[i].is_hot = ( \/ HighScore(unit.args)
                                      \/ ImmediateTimeline(unit.args)
                                      \/ Len(ReasonTexts(unit.args)) >= 2 )
            /\ (unit.ret[i].reason = None) = (ReasonTexts(unit.args) = <<>>)
            /\ ReasonTexts(unit.args) # <<>>
                   => unit.ret[i].reason = Str(CommaJoined(ReasonTexts(unit.args)))

\* a score of 10 with a $10M deal and no hurry: one reason, which alone does not make it hot
C17_Witness ==
    /\ unit.fn = "is_hot_lead"
    /\ unit.args = <<10, Str("just browsing"), Str("$10M")>>
    /\ unit.ret = << [is_hot |-> FALSE, reason |-> Str("High deal value ($10M)")] >>

---------------------------------------------------------------------------
Normalized == unit.fn = "normalize_parameters" /\ unit.args[1].t = "dict" /\ Len(unit.ret) > 0

\* the name is in the input with a value that is neither null nor the empty string
HasValue(input, name) == HasKey(input, name) /\ input.v[name] \notin {None, Str("")}

\* names[j] is the first of the names, in their order, to have such a value
IsFirstWithValue(input, names, j) ==
    HasValue(input, names[j]) /\ \A m \in 1..(j - 1) : ~HasValue(input, names[m])

\* the boolean an is_hot_lead value is turned into
AsBoolean(val) ==
    IF val.t = "str" THEN Bool(val.v \in {"1", "true", "True", "TRUE", "yes", "Yes", "YES"})
    ELSE Bool(val \notin {None, Bool(FALSE), Num(0)})

\* C18 as stated: every canonical field of the output holds the value of the first name, in the
\* declared alias order of the field, that is in the input with a value that is neither null
\* nor the empty string, and a field with no such name is absent from the output
C18_FirstAliasValue ==
    Normalized =>
        \A r \in DOMAIN unit.ret : \A f \in DOMAIN aliases :
            /\ unit.ret[r].ok
            /\ \A j \in DOMAIN aliases[f][2] :
                   IsFirstWithValue(unit.args[1], aliases[f][2], j)
                   => /\ HasKey(unit.ret[r].v, aliases[f][1])
                      /\ unit.ret[r].v.v[aliases[f][1]] = unit.args[1].v[aliases[f][2][j]]
            /\ (\A j \in DOMAIN aliases[f][2] : ~HasValue(unit.args[1], aliases[f][2][j]))
                   => ~HasKey(unit.ret[r].v, aliases[f][1])

\* C18, amended: ...; the is_hot_lead field holds that value turned into a boolean (a string
\* is true when it is "1", "true" or "yes" in any case, any other value by its truthiness)
C18_FirstAliasValueCoerced ==
    Normalized =>
        \A r \in DOMAIN unit.ret : \A f \in DOMAIN aliases :
            /\ unit.ret[r].ok
            /\ \A j \in DOMAIN aliases[f][2] :
                   IsFirstWithValue(unit.args[1], aliases[f][2], j)
                   => /\ HasKey(unit.ret[r].v, aliases[f][1])
                      /\ unit.ret[r].v.v[aliases[f][1]] =
                            IF aliases[f][1] = "is_hot_lead"
                            THEN AsBoolean(unit.args[1].v[aliases[f][2][j]])
                            ELSE unit.args[1].v[aliases[f][2][j]]
            /\ (\A j \in DOMAIN aliases[f][2] : ~HasValue(unit.args[1], aliases[f][2][j]))
                   => ~HasKey(unit.ret[r].v, aliases[f][1])

\* is_hot_lead is "", is_hot is "No" and hot is "TRUE": the field is taken from is_hot, as False
C18_Witness ==
    /\ Normalized
    /\ unit.args[1] = Dict("is_hot_lead" :> Str("") @@ "is_hot" :> Str("No") @@ "hot" :> Str("TRUE")
                            @@ "sentiment" :> Str("positive"))
    /\ unit.ret[1] = [ok |-> TRUE, v |-> Dict("is_hot_lead" :> Bool(FALSE) @@ "sentiment" :> Str("positive"))]

---------------------------------------------------------------------------
\* C19: arguments given as a JSON-encoded string or as single-quoted pseudo-JSON normalize to
\* the canonical mapping of the same arguments given as a native object, arguments that cannot
\* be turned into a mapping give the empty canonical mapping, and decoding never raises
C19_DecodedAsNative ==
    (unit.fn = "arguments") =>
        \A r \in DOMAIN unit.ret :
            /\ unit.ret[r].ok
            /\ unit.ret[r] = normalize_parameters(unit.args[2])

\* the arguments "7" decode to the number 7, on which normalize_parameters raised
C19_Witness ==
    /\ unit.fn = "arguments"
    /\ unit.args = <<Str("7"), EmptyDict>>
    /\ unit.ret = << [ok |-> FALSE] >>

---------------------------------------------------------------------------
\* the request in service has a message type that is not a tool-calls type, or has a tool-calls
\* type and an empty list of tool calls
NothingToHandle ==
    \/ req["w1"].message_type \in {Str("end-of-call-report"), Str("status-update"), Str("unknown")}
    \/ /\ req["w1"].message_type \in {Str("tool-calls"), Str("Tool-Calls")}
       /\ req["w1"].tool_calls = <<>>

\* C20: a webhook whose message type is not a tool-calls type, or whose list of tool calls is
\* empty, invokes no handler and is answered {"status": "success", ...}, not a list of results
C20_NoHandler ==
    NothingToHandle =>
        /\ pc["w1"] \in {"loop", "responded"}
        /\ loc["w1"] = NoLoc
        /\ pc["w1"] = "responded" =>
               /\ response["w1"].status = 200
               /\ DOMAIN response["w1"].body.v = {"status", "message"}
               /\ response["w1"].body.v["status"] = Str("success")

\* C20: ... and writes nothing to the spreadsheet or the datastore
C20_NoWrite == (NothingToHandle \/ NothingToHandle') => UNCHANGED <<db, sheet>>

C20_NothingToHandle == []C20_NoHandler /\ [][C20_NoWrite]_vars

\* a status update that carries a tool call was answered with success and nothing was stored
C20_Witness ==
    /\ pc["w1"] = "responded"
    /\ req["w1"].message_type = Str("status-update")
    /\ response["w1"].body = Dict("status" :> Str("success") @@ "message" :> Str("Processed successfully"))
    /\ supabase /\ google_sheet
    /\ calls = <<>> /\ sheet = <<>>

---------------------------------------------------------------------------
\* the keys of the input that are in no alias list
Unrecognized(input) == DOMAIN input.v \ AllAliasNames

\* the canonical fields one of whose aliases has a value in the input
Resolved(input) ==
    {aliases[f][1] : f \in {g \in DOMAIN aliases :
                                \E j \in DOMAIN aliases[g][2] : HasValue(input, aliases[g][2][j])}}

\* C21: normalize_parameters loses no unrecognized field: every key of the input that is in no
\* alias list is in the output under the same name with the same value, and no such key takes
\* the place of a canonical field
C21_PassThrough ==
    Normalized =>
        \A r \in DOMAIN unit.ret :
            /\ unit.ret[r].ok
            /\ \A k \in Unrecognized(unit.args[1]) :
                   HasKey(unit.ret[r].v, k) /\ unit.ret[r].v.v[k] = unit.args[1].v[k]
            /\ Unrecognized(unit.args[1]) \cap {aliases[f][1] : f \in DOMAIN aliases} = {}
            /\ DOMAIN unit.ret[r].v.v = Unrecognized(unit.args[1]) \cup Resolved(unit.args[1])

\* sentiment None, a budget list and Phone are copied as they are next to the resolved phone
C21_Witness ==
    /\ Normalized
    /\ unit.args[1] = Dict("sentiment" :> None @@ "budget" :> List(<<Str("t1")>>)
                            @@ "Phone" :> Str("777") @@ "phone" :> Str("555"))
    /\ unit.ret[1] = [ok |-> TRUE,
                       v |-> Dict("sentiment" :> None @@ "budget" :> List(<<Str("t1")>>)
                                  @@ "Phone" :> Str("777") @@ "caller_phone" :> Str("555"))]

---------------------------------------------------------------------------
\* a collect_caller_information or flag_hot_lead has just returned success and no sink call
\* has failed so far
HotHandlerSucceeded ==
    /\ Ran("w1", "collect") \/ Ran("w1", "flag")
    /\ Succeeded(loc["w1"].handler_result)
    /\ failures = 0

\* C22: after every collect_caller_information or flag_hot_lead that completed with success,
\* the requests being served one after the other, a CallRecord has its hot flag set if and only
\* if a HotLeadRecord references it
C22_HotFlagIffHotLead ==
    HotHandlerSucceeded =>
        \A id \in DOMAIN calls : (calls[id].is_hot_lead = TRUE) <=> (HotLeadsOf(id) # {})

\* a collect that is not hot has updated the record of a call that was hot: the flag is down and
\* the hot lead of the first collect still references the record
C22_Witness ==
    /\ HotHandlerSucceeded
    /\ Ran("w1", "collect")
    /\ UpdatedExisting(loc["w1"])
    /\ Len(calls) = 1
    /\ calls[1].is_hot_lead = FALSE
    /\ HotLeadsOf(1) = {1}

---------------------------------------------------------------------------
\* C23: no CallRecord carries "unknown", or no value, as its external call identifier: each
\* holds an identifier that the platform supplied or a synthesized one, so that the lookup by
\* the identifier "unknown" in schedule_callback, request_property_information or flag_hot_lead
\* resolves to no record
C23_NoUnknownIdentifier ==
    /\ \A i \in DOMAIN calls : calls[i].call_id \notin {Str("unknown"), None}
    /\ ( /\ Ran("w1", "callback") \/ Ran("w1", "property") \/ Ran("w1", "flag")
         /\ req["w1"].call_id = Str("unknown") )
       => loc["w1"].db_call_id = 0

\* an event with no call identifier has flagged as hot the record that an earlier event with
\* no call identifier and the same phone had updated: the record carries "unknown"
C23_Witness ==
    /\ Ran("w1", "flag")
    /\ Succeeded(loc["w1"].handler_result)
    /\ req["w1"].call_id = Str("unknown")
    /\ loc["w1"].db_call_id = 1
    /\ calls[1].call_id = Str("unknown")
    /\ failures = 0

---------------------------------------------------------------------------
\* C24, as one step: the update of the record that the lookup found leaves the surrogate id
\* and the external call identifier of that record as they were
C24_Step ==
    (/\ pc["w1"] = "c_update"
     /\ loc'["w1"].ops = Append(loc["w1"].ops, [op |-> "calls.update", outcome |-> "ok"]))
    => /\ Len(calls') = Len(calls)
       /\ calls'[loc["w1"].inserted_call_id].id = calls[loc["w1"].inserted_call_id].id
       /\ calls'[loc["w1"].inserted_call_id].call_id = calls[loc["w1"].inserted_call_id].call_id

\* C24: the UPDATE step of collect_caller_information never changes the surrogate id or the
\* external call identifier of the CallRecord it updates, whether the record was found by
\* identifier or by the phone fallback
C24_UpdateKeepsIdentity == [][C24_Step]_vars

\* the only record, phone 555, was found by phone for an event with no call identifier: it
\* kept its id and its identifier became "unknown"
C24_Witness ==
    /\ Ran("w1", "collect")
    /\ Succeeded(loc["w1"].handler_result)
    /\ UpdatedExisting(loc["w1"])
    /\ req["w1"].call_id = Str("unknown")
    /\ failures = 0
    /\ Len(calls) = 1
    /\ RecordsWith(Str("c1")) = {}
    /\ calls[1].id = 1
    /\ calls[1].call_id = Str("unknown")
    /\ Len(sheet) = 2

---------------------------------------------------------------------------
\* a collect_caller_information that carries a usable call identifier is being handled
CollectingFor(call_id) ==
    /\ pc["w1"] \in {"c_sheet", "c_lookup", "c_update", "c_del_topics", "c_del_questions", "c_insert",
                      "c_topics", "c_questions", "c_hot_lookup", "c_hot_lookup_phone", "c_hot_write",
                      "c_patch"}
    /\ req["w1"].call_id = call_id
    /\ call_id \notin {None, Str("unknown")}

\* the records of the calls other than call_id
OtherCalls(call_id) == {i \in DOMAIN calls : calls[i].call_id # call_id}

Rows(table) == {table[i] : i \in DOMAIN table}

C25_Step ==
    \A x \in {Str("c1"), Str("c2")} :
        CollectingFor(x) =>
            /\ \A i \in OtherCalls(x) : i \in DOMAIN calls' /\ calls'[i] = calls[i]
            /\ \A r \in Rows(conversation_topics) : r.call_id \in OtherCalls(x) => r \in Rows(conversation_topics')
            /\ \A r \in Rows(questions_asked) : r.call_id \in OtherCalls(x) => r \in Rows(questions_asked')
            /\ \A h \in DOMAIN hot_leads :
                   hot_leads[h].call_id \in OtherCalls(x)
                   => h \in DOMAIN hot_leads' /\ hot_leads'[h] = hot_leads[h]

\* C25: a collect_caller_information event that carries a usable call identifier X never
\* modifies or re-points a CallRecord, ConversationTopic, QuestionAsked or HotLeadRecord row
\* of another call, another call with the same phone number included
C25_OnlyOwnRows == [][C25_Step]_vars

\* the hot collect of call c2 took the hot lead of call c1, which has the same phone
C25_Witness ==
    /\ Ran("w1", "collect")
    /\ Succeeded(loc["w1"].handler_result)
    /\ req["w1"].call_id = Str("c2")
    /\ HasOutcome(loc["w1"], "hot_leads.update", "ok")
    /\ failures = 0
    /\ Len(calls) = 2
    /\ calls[1].call_id = Str("c1") /\ calls[1].is_hot_lead = TRUE
    /\ calls[2].call_id = Str("c2") /\ calls[2].caller_phone = calls[1].caller_phone
    /\ Len(hot_leads) = 1
    /\ hot_leads[1].call_id = 2

---------------------------------------------------------------------------
\* both processes have completed a collect_caller_information that updated record 1, and no
\* sink call has failed
BothUpdated ==
    /\ \A p \in Workers :
          /\ Ran(p, "collect")
          /\ Succeeded(loc[p].handler_result)
          /\ UpdatedExisting(loc[p])
          /\ loc[p].inserted_call_id = 1
    /\ failures = 0

\* C26: when two collect_caller_information events for the same existing CallRecord are handled
\* concurrently, the topic and question rows of the record after both have completed are the
\* lists of exactly one of the two events, never a mixture of rows of both
C26_NoMixture ==
    BothUpdated =>
        \E p \in Workers :
            /\ TopicsOf(1) = TopicItems(loc[p].parameters)
            /\ QuestionsOf(1) = QuestionItems(loc[p].parameters)

\* one event brought the topic t1 and the other the topics t2, t1: the record has three topic rows
C26_Witness ==
    /\ BothUpdated
    /\ Len(calls) = 1
    /\ TopicItems(loc["w1"].parameters) = <<Str("t1")>>
    /\ TopicItems(loc["w2"].parameters) = <<Str("t2"), Str("t1")>>
    /\ Len(TopicsOf(1)) = 3

---------------------------------------------------------------------------
\* C27: is_hot_lead returns hot exactly when score >= 75 or urgency == "immediate": the
\* disjunct of two or more reasons never changes the outcome, and a deal size of the top tier
\* alone never makes a lead hot; and whenever it returns hot the reason is not None
C27_HotIffScoreOrImmediate ==
    (unit.fn = "is_hot_lead") =>
        \A i \in DOMAIN unit.ret :
            /\ unit.ret[i].is_hot = (unit.args[1] >= 75 \/ unit.args[2] = Str("immediate"))
            /\ unit.ret[i].is_hot => unit.ret[i].reason # None
            /\ (unit.args[1] < 75 /\ unit.args[2] # Str("immediate")) => ~unit.ret[i].is_hot

\* a score of 74 with a deal of 2 Million and the urgency "Immediate": not hot, with a reason
C27_Witness ==
    /\ unit.fn = "is_hot_lead"
    /\ unit.args = <<74, Str("Immediate"), Str("2 Million")>>
    /\ Len(unit.ret) = MaxCalls
    /\ unit.ret[1] = [is_hot |-> FALSE, reason |-> Str("High deal value (2 Million)")]

=============================================================================
